---- MODULE Spec2Model ----
(***************************************************************************)
(* Model of functions/api/generate.js: the generate handler               *)
(* (onRequestPost), its validator, post-processor and targeted repairs.   *)
(*                                                                         *)
(* Representation of JavaScript strings.                                   *)
(*   A text (the content of one line) is a run-length encoded sequence of  *)
(*   characters: <<[c |-> "x", n |-> 3300]>> is 3300 times the letter x.   *)
(*   ASCII characters stand for themselves; the non-ASCII characters used  *)
(*   are named: "a_uml" "o_uml" "u_uml" "A_uml" "O_uml" "U_uml" "eszett"   *)
(*   (the German letters asciiNormalizeBackend maps), "cyr" (a Cyrillic    *)
(*   letter), "sun" (U+2600, in the emoji range), "dash" (U+2014).         *)
(*   A multi-line string is a non-empty sequence of lines (what            *)
(*   s.split("\n") returns); the empty string is <<Blank>>.  A line is a   *)
(*   record: the marker lines the regular expressions of the source look   *)
(*   for are kinds of their own, free text is kind "txt".                  *)
(***************************************************************************)
EXTENDS Integers, Sequences, FiniteSets, TLC

(* ------------------------------ CFG ----------------------------------- *)
TITLE_MIN == 180
TITLE_MAX == 195
TITLE_HARD_MAX == 200
BULLET_COUNT == 5
BULLET_MIN == 220
BULLET_MAX == 240
DESC_MIN == 3300
DESC_MAX == 3700
BACKEND_MAX_BYTES == 250

(* ------------------------- characters and texts ------------------------ *)
Umlauts == {"a_uml", "o_uml", "u_uml", "A_uml", "O_uml", "U_uml", "eszett"}
NonAscii == Umlauts \cup {"cyr", "sun", "dash"}
BackendPunct == {",", ".", ";", ":", "|", "/", "\\"}

Utf8Bytes(c) == IF c \in Umlauts \cup {"cyr"} THEN 2
                ELSE IF c \in {"sun", "dash"} THEN 3 ELSE 1

ToLower(c) ==
  CASE c = "A" -> "a" [] c = "B" -> "b" [] c = "G" -> "g" [] c = "L" -> "l"
    [] c = "U" -> "u" [] c = "X" -> "x"
    [] c = "A_uml" -> "a_uml" [] c = "O_uml" -> "o_uml" [] c = "U_uml" -> "u_uml"
    [] OTHER -> c

\* const v = ...; then the rest of the statements of the source, which
\* run on the finished value v
Let(v, Rest(_)) == <<v, Rest(v)>>[2]
Let2(v, w, Rest(_, _)) == <<v, w, Rest(v, w)>>[3]
Let4(v, w, x, y, Rest(_, _, _, _)) == <<v, w, x, y, Rest(v, w, x, y)>>[5]

Run(c, n) == IF n = 0 THEN << >> ELSE <<[c |-> c, n |-> n]>>

\* a + b on single-line texts (adjacent equal runs merge, so that equal
\* strings have equal representations)
TCat(a, b) ==
  IF a = << >> THEN b
  ELSE IF b = << >> THEN a
  ELSE IF a[Len(a)].c = b[1].c
       THEN SubSeq(a, 1, Len(a) - 1)
            \o <<[c |-> b[1].c, n |-> a[Len(a)].n + b[1].n]>> \o Tail(b)
       ELSE a \o b

\* the sum of the numbers of a sequence
RECURSIVE Sum(_)
Sum(ns) ==
  IF ns = << >> THEN 0
  ELSE IF Len(ns) = 1 THEN ns[1]
  ELSE LET m == Len(ns) \div 2
       IN  Sum(SubSeq(ns, 1, m)) + Sum(SubSeq(ns, m + 1, Len(ns)))

\* the sequences of a sequence, one after the other
RECURSIVE Flat(_)
Flat(parts) ==
  IF parts = << >> THEN << >>
  ELSE IF Len(parts) = 1 THEN parts[1]
  ELSE LET m == Len(parts) \div 2
       IN  Flat(SubSeq(parts, 1, m)) \o Flat(SubSeq(parts, m + 1, Len(parts)))

\* parts.join("") on single-line texts
RECURSIVE TJoin(_)
TJoin(parts) ==
  IF parts = << >> THEN << >>
  ELSE IF Len(parts) = 1 THEN parts[1]
  ELSE LET m == Len(parts) \div 2
       IN  TCat(TJoin(SubSeq(parts, 1, m)), TJoin(SubSeq(parts, m + 1, Len(parts))))

TLen(t) == Sum([i \in 1..Len(t) |-> t[i].n])

TMap(F(_), t) == TJoin([i \in 1..Len(t) |-> <<[c |-> F(t[i].c), n |-> t[i].n]>>])

THas(t, S) == \E i \in 1..Len(t) : t[i].c \in S

TLower(t) == TMap(ToLower, t)

\* the tokens of s.split(/\s+/).filter(Boolean): from each run that starts
\* a token to the last run before the next space
Tokens(t) ==
  LET idx == [i \in 1..Len(t) |-> i]
      starts == SelectSeq(idx, LAMBDA i : t[i].c # " " /\ (i = 1 \/ t[i - 1].c = " "))
      ends == SelectSeq(idx, LAMBDA i : t[i].c # " " /\ (i = Len(t) \/ t[i + 1].c = " "))
  IN  [k \in 1..Len(starts) |-> SubSeq(t, starts[k], ends[k])]

\* toks.join(" ")
JoinTokens(toks) ==
  TJoin([i \in 1..(2 * Len(toks) - 1) |->
           IF i % 2 = 1 THEN toks[(i + 1) \div 2] ELSE <<[c |-> " ", n |-> 1]>>])

\* .filter(t => t.toLowerCase() !== b.toLowerCase())
SelectSeqT(s, brandLower) == SelectSeq(s, LAMBDA tok : TLower(tok) # brandLower)

\* String(s).trim() on a single-line text
TTrimStart(t) == IF t # << >> /\ t[1].c = " " THEN Tail(t) ELSE t

TTrimEnd(t) == IF t # << >> /\ t[Len(t)].c = " " THEN SubSeq(t, 1, Len(t) - 1) ELSE t

TTrim(t) == TTrimEnd(TTrimStart(t))

collapseSpaces(t) == Let(Tokens(t), LAMBDA toks : JoinTokens(toks))

normalizeOneLine(t) == collapseSpaces(t)

byteLen(t) == Sum([i \in 1..Len(t) |-> t[i].n * Utf8Bytes(t[i].c)])

\* t repeated n times
RepT(t, n) == TJoin([i \in 1..n |-> t])

\* the seven .replace calls on the German letters: one source character
\* becomes two ASCII characters
TransliterateRun(r) ==
  LET pair(a, b) == RepT(<<[c |-> a, n |-> 1], [c |-> b, n |-> 1]>>, r.n)
  IN  CASE r.c = "A_uml" -> pair("A", "e")
        [] r.c = "O_uml" -> pair("O", "e")
        [] r.c = "U_uml" -> pair("U", "e")
        [] r.c = "a_uml" -> pair("a", "e")
        [] r.c = "o_uml" -> pair("o", "e")
        [] r.c = "u_uml" -> pair("u", "e")
        [] r.c = "eszett" -> <<[c |-> "s", n |-> 2 * r.n]>>
        [] OTHER -> <<r>>

Transliterate(t) == TJoin([i \in 1..Len(t) |-> TransliterateRun(t[i])])

AsciiOrSpace(c) == IF c \in NonAscii \/ c \in BackendPunct THEN " " ELSE c

asciiNormalizeBackend(t) ==
  Let(Transliterate(t), LAMBDA german :
  Let(TMap(AsciiOrSpace, german), LAMBDA ascii :
  collapseSpaces(ascii)))

removeBrandFromBackend(t, brand) ==
  Let(TTrim(brand), LAMBDA b :
  IF b = << >> THEN collapseSpaces(t)
  ELSE Let(SelectSeqT(Tokens(t), TLower(b)), LAMBDA kept :
       Let(JoinTokens(kept), LAMBDA out :
       collapseSpaces(out))))

RECURSIVE hardTrimAcc(_, _, _)
hardTrimAcc(toks, out, maxBytes) ==
  IF toks = << >> THEN out
  ELSE LET candidate == IF out # << >> THEN Append(out, toks[1]) ELSE <<toks[1]>>
       IN  IF byteLen(JoinTokens(candidate)) <= maxBytes
           THEN hardTrimAcc(Tail(toks), candidate, maxBytes)
           ELSE out

hardTrimBackendToBytes(t, maxBytes) ==
  JoinTokens(hardTrimAcc(Tokens(collapseSpaces(t)), << >>, maxBytes))

IsPrefix(p, t) ==
  \* t.startsWith(p) on run-length encoded texts
  \/ p = << >>
  \/ /\ Len(p) <= Len(t)
     /\ \A i \in 1..(Len(p) - 1) : p[i] = t[i]
     /\ p[Len(p)].c = t[Len(p)].c
     /\ p[Len(p)].n <= t[Len(p)].n

startsWithBrand(title, brand) ==
  LET t == TLower(TTrim(title))
      b == TLower(TTrim(brand))
  IN  IF b = << >> THEN TRUE ELSE IsPrefix(b, t)

containsCyrillic(t) == THas(t, {"cyr"})

containsEmoji(t) == THas(t, {"sun"})

\* the characters of a text, one by one
Expand(t) == Flat([r \in 1..Len(t) |-> [i \in 1..t[r].n |-> t[r].c]])

\* t.includes(b), both lower-cased
includesBrand(t, brand) ==
  Let2(Expand(TLower(t)), Expand(TLower(brand)), LAMBDA tt, bb :
  IF bb = << >> THEN FALSE
  ELSE \E i \in 0..(Len(tt) - Len(bb)) : SubSeq(tt, i + 1, i + Len(bb)) = bb)

UpperLetters == {"A", "B", "G", "L", "U", "X", "A_uml", "O_uml", "U_uml"}
LowerLetters == {"a", "b", "e", "f", "g", "l", "o", "s", "u", "x",
                 "a_uml", "o_uml", "u_uml", "eszett"}
Digits == {"0", "1", "2", "3", "4", "5", "6", "7", "8", "9"}

isAllCaps(t) ==
  LET s == TTrim(t)
  IN  IF s = << >> THEN FALSE
      ELSE THas(s, UpperLetters \cup LowerLetters) /\ ~THas(s, LowerLetters)

WordChar(c) == IF c \in LowerLetters \cup Digits \cup {" ", "-"} THEN c ELSE " "

maxWordRepetition(title) ==
  Let(Tokens(TMap(WordChar, TLower(title))), LAMBDA words :
  Let({i \in 1..Len(words) : TLen(words[i]) >= 2}, LAMBDA long :
  Let({Cardinality({j \in long : words[j] = words[i]}) : i \in long}, LAMBDA counts :
  IF long = {} THEN 0 ELSE CHOOSE m \in counts : \A k \in counts : k <= m)))

(* ------------------------- lines and strings -------------------------- *)
\* Kinds of line, with the text each stands for:
\*   blank        ""                         txt      free text (field txt)
\*   p1head       the Phase 1 heading        src      the Phase 1 sources line
\*   p2head       the Phase 2 heading        variant  VARIANT A | B | C (txt)
\*   titlesHead   Titles (2 ...):            title    <num>. <txt> (Chars: <cnt>)
\*   bulletsHead  Bullet Points (<num>):     bullet   a line starting with the bullet sign
\*   descHead     Product Description (Chars: <cnt>)
\*   backendHead  Backend - Generic Keywords (1 ...) (Bytes: <cnt>):
\*   activeHead   Active Ingredients (...):  complHead / specialHead likewise
\*   diffLine     the Phase 1 line after which ensurePhase1Sources inserts
\*   descHeadDup  Product DescriptionProduct Description (Chars: <cnt>), the
\*                line fixBulletsAllVariants leaves (its replacement ends
\*                with the heading that the spliced tail starts with)
\* cnt = -1 means the line carries no count annotation.  urls are the
\* http(s) URLs written on the line.
NewLine(k) ==
  [k |-> k, num |-> 0, cnt |-> -1, txt |-> << >>, lab |-> << >>, urls |-> << >>]

Blank == NewLine("blank")
TxtLine(t) == IF t = << >> THEN Blank ELSE [NewLine("txt") EXCEPT !.txt = t]
SrcLine(us) == [NewLine("src") EXCEPT !.urls = us]
P1Head == NewLine("p1head")
P2Head == NewLine("p2head")
VariantLine(letter) == [NewLine("variant") EXCEPT !.txt = Run(letter, 1)]
TitlesHead == NewLine("titlesHead")
TitleLine(i, t, cnt) == [NewLine("title") EXCEPT !.num = i, !.txt = t, !.cnt = cnt]
BulletsHead == [NewLine("bulletsHead") EXCEPT !.num = 5]
\* "<sign> **<lab>**: <body>" when lab is not empty, "<sign> <body>" otherwise
BulletLine(lab, body) == [NewLine("bullet") EXCEPT !.lab = lab, !.txt = body]
DescHead(cnt) == [NewLine("descHead") EXCEPT !.cnt = cnt]
BackendHead(cnt) == [NewLine("backendHead") EXCEPT !.cnt = cnt]
ActiveHead == NewLine("activeHead")
DiffLine == NewLine("diffLine")

EmptyStr == <<Blank>>

\* the kinds of line that start with the bullet sign
BulletSignKinds == {"bullet", "src", "specialHead"}

\* the index of the first line that satisfies P, 0 when there is none
FirstIndex(s, P(_)) ==
  IF \E i \in 1..Len(s) : P(s[i])
  THEN CHOOSE i \in 1..Len(s) : P(s[i]) /\ \A j \in 1..(i - 1) : ~P(s[j])
  ELSE 0

\* the index of the last line that satisfies P, 0 when there is none
LastIndex(s, P(_)) ==
  IF \E i \in 1..Len(s) : P(s[i])
  THEN CHOOSE i \in 1..Len(s) : P(s[i]) /\ \A j \in (i + 1)..Len(s) : ~P(s[j])
  ELSE 0

\* without the empty lines at the start, at the end
DropBlanksStart(s) ==
  LET i == FirstIndex(s, LAMBDA l : l # Blank)
  IN  IF i = 0 THEN << >> ELSE SubSeq(s, i, Len(s))

DropBlanksEnd(s) == SubSeq(s, 1, LastIndex(s, LAMBDA l : l # Blank))

NonEmpty(s) == IF s = << >> THEN EmptyStr ELSE s

\* s.trim(), s.trimEnd() of a multi-line string (lines carry no outer spaces)
Trim(s) == NonEmpty(DropBlanksEnd(DropBlanksStart(s)))
TrimEnd(s) == NonEmpty(DropBlanksEnd(s))

\* a + b: the last line of a continues with the first line of b
StrCat(a, b) ==
  LET la == a[Len(a)]
      lb == b[1]
      mid == IF la = Blank THEN lb
             ELSE IF lb = Blank THEN la
             ELSE IF la.k = "descHead" /\ lb.k \in {"descHead", "descHeadDup"}
                  THEN [lb EXCEPT !.k = "descHeadDup"]
             ELSE [la EXCEPT !.txt = TCat(la.txt, lb.txt), !.urls = la.urls \o lb.urls]
  IN  SubSeq(a, 1, Len(a) - 1) \o <<mid>> \o Tail(b)

\* parts.join("\n")
JoinLines(parts) == IF parts = << >> THEN EmptyStr ELSE Flat(parts)

\* s.slice(0, i) and s.slice(i), i the index of the first character of line i
SliceBefore(s, i) == SubSeq(s, 1, i - 1) \o <<Blank>>
SliceFrom(s, i) == SubSeq(s, i, Len(s))

(* ----------------------- regular expressions -------------------------- *)
\* The regular expressions of the source, by name; ReMatch(re, l) is
\* re.test(l) for a line l of the kinds above.
ReMatch(re, l) ==
  CASE re = "Phase1" -> l.k = "p1head"                 \* /FAZA\s*1/i
    [] re = "Phase2" -> l.k = "p2head"                 \* /FAZA\s*2/i
    [] re = "Phase2Listing" -> l.k = "p2head"          \* /(FAZA\s*2\s*[.:-]\s*LISTING)/i
    [] re = "Variant" -> l.k = "variant"               \* /\bVARIANT\s+[ABC]\b/gi
    [] re = "Titles" -> l.k = "titlesHead"             \* /Titles\s*\(2/i
    [] re = "TitlesHeading" -> l.k = "titlesHead"      \* /Titles\s*\(2[^]*?\)\s*:\s*/i
    [] re = "BulletPoints" -> l.k = "bulletsHead"      \* /Bullet\s*Points/i
    [] re = "BulletPoints5" -> l.k = "bulletsHead" /\ l.num = 5
                                                       \* /Bullet\s*Points\s*\(5\)\s*:/i
    [] re = "ProductDescription" -> l.k \in {"descHead", "descHeadDup"}
                                                       \* /Product\s*Description/i
    [] re = "Backend" -> l.k = "backendHead"           \* /Backend/i
    [] re = "BackendDash" -> l.k = "backendHead"       \* /Backend\s*[--]/i
    [] re = "ActiveIngredients" -> l.k = "activeHead"  \* /Active\s*Ingredients/i
    [] re = "ComplianceNote" -> l.k = "complHead"      \* /Compliance\s*note/i
    [] re = "SpecialFeatures" -> l.k = "specialHead"   \* /.\s*Special\s*Features/i
    [] re = "Sources" -> l.k = "src"                   \* /.\s*Sources\s*:/i
    [] OTHER -> FALSE

\* the line of the first match, 0 for the -1 of the source
findRegexIndex(s, re) == FirstIndex(s, LAMBDA l : ReMatch(re, l))

extractSection(text, startRe, endRe) ==
  Let(findRegexIndex(text, startRe), LAMBDA start :
  IF start = 0 THEN EmptyStr
  ELSE Let(SliceFrom(text, start), LAMBDA tail :
       Let(findRegexIndex(tail, endRe), LAMBDA end :
       IF end = 0 THEN Trim(tail) ELSE Trim(SliceBefore(tail, end)))))

extractSectionAround(full, startRe, endRe) ==
  Let(findRegexIndex(full, startRe), LAMBDA start :
  IF start = 0 THEN EmptyStr
  ELSE Let(SliceFrom(full, start), LAMBDA tail :
       Let(findRegexIndex(tail, endRe), LAMBDA end :
       IF end = 0 THEN tail ELSE SliceBefore(tail, end))))

\* extractSection(.., Backend, Active Ingredients) || (.., Compliance note)
\*   || (.., Special Features)
backendSection(block) ==
  Let(extractSection(block, "BackendDash", "ActiveIngredients"), LAMBDA a :
  IF a # EmptyStr THEN a
  ELSE Let(extractSection(block, "BackendDash", "ComplianceNote"), LAMBDA b :
       IF b # EmptyStr THEN b
       ELSE extractSection(block, "BackendDash", "SpecialFeatures")))

backendSectionAround(full) ==
  Let(extractSectionAround(full, "BackendDash", "ActiveIngredients"), LAMBDA a :
  IF a # EmptyStr THEN a
  ELSE Let(extractSectionAround(full, "BackendDash", "ComplianceNote"), LAMBDA b :
       IF b # EmptyStr THEN b
       ELSE extractSectionAround(full, "BackendDash", "SpecialFeatures")))

(* ------------------------ phase / variant helpers --------------------- *)
extractPhase2(text) ==
  LET idx == findRegexIndex(text, "Phase2Listing")
  IN  IF idx = 0 THEN EmptyStr ELSE Trim(SliceFrom(text, idx))

extractPhase2Header(phase2) ==
  IF ReMatch("Phase2", phase2[1]) THEN <<phase2[1]>> ELSE EmptyStr

\* rest.slice(start, end) for the matches idxs (ascending) of the VARIANT
\* expression: label is the first line of the chunk, text what follows
VariantChunks(rest, idxs) ==
  [i \in 1..Len(idxs) |->
     LET start == idxs[i]
         end == IF i < Len(idxs) THEN idxs[i + 1] ELSE Len(rest) + 1
         chunk == Trim(SubSeq(rest, start, end - 1))
     IN  [label |-> <<chunk[1]>>, text |-> Trim(Tail(chunk))]]

\* the lines of s that match re, ascending
MatchIndexes(s, re) ==
  SelectSeq([i \in 1..Len(s) |-> i], LAMBDA i : ReMatch(re, s[i]))

splitVariantsPhase2(phase2Text, variantsExpected) ==
  Let(Trim(Tail(Trim(phase2Text))), LAMBDA rest :
  Let(MatchIndexes(rest, "Variant"), LAMBDA matches :
  IF matches = << >> THEN <<[label |-> EmptyStr, text |-> rest]>>
  ELSE Let(VariantChunks(rest, matches), LAMBDA out :
       IF variantsExpected = 1 /\ Len(out) > 1 THEN <<out[1]>> ELSE out)))

\* variantBlocks.flatMap(v => [v.label, v.text].filter(Boolean))
FlatBlocks(blocks) ==
  Flat([i \in 1..(2 * Len(blocks)) |->
          LET v == blocks[(i + 1) \div 2]
              part == IF i % 2 = 1 THEN v.label ELSE v.text
          IN  IF part # EmptyStr THEN <<part>> ELSE << >>])

DefaultHeader == <<P2Head>>

\* extractPhase2Header(phase2) || the default heading
headerOf(phase2) ==
  Let(extractPhase2Header(phase2), LAMBDA h : IF h # EmptyStr THEN h ELSE DefaultHeader)

\* the rebuilt Phase 2: with VARIANT markers the heading and every block,
\* without them the heading and the text of the first block
rebuiltPhase2(phase2, variantBlocks) ==
  Let2(headerOf(phase2), \E i \in 1..Len(phase2) : ReMatch("Variant", phase2[i]),
       LAMBDA header, hadVariants :
  Let(IF hadVariants THEN <<header>> \o FlatBlocks(variantBlocks)
      ELSE <<header, IF variantBlocks = << >> THEN EmptyStr ELSE variantBlocks[1].text>>,
      LAMBDA parts :
  Let(JoinLines(parts), LAMBDA joined : Trim(joined))))

rebuildPhase2(fullText, variantBlocks) ==
  Let(extractPhase2(fullText), LAMBDA phase2 :
  IF phase2 = EmptyStr THEN fullText
  ELSE Let2(TrimEnd(SliceBefore(fullText, findRegexIndex(fullText, "Phase2Listing"))),
            rebuiltPhase2(phase2, variantBlocks),
            LAMBDA before, rebuilt : Trim(before \o rebuilt)))

(* --------------------------- section parsing -------------------------- *)
RECURSIVE DigitsOf(_)
DigitsOf(n) ==
  LET d == <<"0", "1", "2", "3", "4", "5", "6", "7", "8", "9">>[(n % 10) + 1]
  IN  IF n < 10 THEN Run(d, 1) ELSE TCat(DigitsOf(n \div 10), Run(d, 1))

\* the text of an ASCII word given as a sequence of characters
Word(cs) == TJoin([i \in 1..Len(cs) |-> Run(cs[i], 1)])

\* the length of the canonical heading lines of the output format
\* (buildMasterInstructions)
HeadLen(k) ==
  CASE k = "p1head" -> 24 [] k = "p2head" -> 16 [] k = "src" -> 11
    [] k = "variant" -> 9 [] k = "titlesHead" -> 20 [] k = "bulletsHead" -> 18
    [] k = "descHead" -> 19 [] k = "descHeadDup" -> 38 [] k = "backendHead" -> 34
    [] k = "diffLine" -> 24
    [] k = "activeHead" -> 41 [] k = "complHead" -> 31 [] k = "specialHead" -> 26
    [] OTHER -> 0

\* the characters of a line
Render(l) ==
  CASE l.k = "blank" -> << >>
    [] l.k = "txt" -> l.txt
    [] l.k = "title" ->
         TJoin(<<DigitsOf(l.num), Word(<<".", " ">>), l.txt>>
               \o IF l.cnt < 0 THEN << >>
                  ELSE <<Word(<<" ", "(", "C", "h", "a", "r", "s", ":", " ">>),
                         DigitsOf(l.cnt), Run(")", 1)>>)
    [] l.k \in BulletSignKinds ->
         IF l.lab = << >> THEN TJoin(<<Word(<<"bul", " ">>), l.txt>>)
         ELSE TJoin(<<Word(<<"bul", " ", "*", "*">>), l.lab,
                      Word(<<"*", "*", ":", " ">>), l.txt>>)
    [] OTHER -> Run(l.k, HeadLen(l.k))

\* s.length of a multi-line string
StrLen(s) == Sum([i \in 1..Len(s) |-> TLen(Render(s[i]))]) + Len(s) - 1

StrHas(s, S) == \E i \in 1..Len(s) : THas(Render(s[i]), S)

\* the title with its count annotation left on
stripCounterSuffixKept(l) ==
  TTrim(IF l.cnt < 0 THEN l.txt
        ELSE TJoin(<<l.txt, Word(<<" ", "(", "C", "h", "a", "r", "s", ":", " ">>),
                     DigitsOf(l.cnt), Run(")", 1)>>))

stripCounterSuffix(l) == TTrim(l.txt)

\* the titles as lines: the first line that starts with "1.", then the
\* first that starts with "2."
parseTwoTitlesFromTitlesBlock(titlesBlock) ==
  LET t1 == FirstIndex(titlesBlock, LAMBDA l : l.k = "title" /\ l.num = 1)
      t2 == FirstIndex(titlesBlock, LAMBDA l : l.k = "title" /\ l.num = 2)
  IN  (IF t1 > 0 THEN <<titlesBlock[t1]>> ELSE << >>)
      \o (IF t2 > 0 THEN <<titlesBlock[t2]>> ELSE << >>)

SelectLines(s, kinds) == SelectSeq(s, LAMBDA l : l.k \in kinds)

parseBulletsFromBulletsBlock(bulletsBlock) ==
  LET bullets == SelectLines(bulletsBlock, BulletSignKinds)
  IN  SubSeq(bullets, 1, IF Len(bullets) < 5 THEN Len(bullets) ELSE 5)

stripDescriptionHeading(descBlock) ==
  IF ReMatch("ProductDescription", descBlock[1])
  THEN Trim(Tail(descBlock))
  ELSE Trim(descBlock)

\* the first line that is neither empty nor the backend heading; Blank
\* stands for the "" of the source
parseBackendLine(backendBlock) ==
  LET i == FirstIndex(backendBlock, LAMBDA l : l # Blank /\ l.k # "backendHead")
  IN  IF i > 0 THEN backendBlock[i] ELSE Blank

(* ------------------------------ URL rules ----------------------------- *)
AllUrls(s) == Flat([i \in 1..Len(s) |-> s[i].urls])

FilterNotIn(us, allowed) == SelectSeq(us, LAMBDA u : u \notin allowed)

findUrlsOutsidePhase1Sources(text) ==
  LET urls == AllUrls(text)
      allowedUrls == UNION {{text[i].urls[j] : j \in 1..Len(text[i].urls)} :
                              i \in {n \in 1..Len(text) : ReMatch("Sources", text[n])}}
  IN  FilterNotIn(urls, allowedUrls)

(* ------------------------------ validation ---------------------------- *)
\* A violation: the label of the block (EmptyStr reads "OUTPUT", NoLabel
\* marks the document-wide messages, which carry none), the message by
\* name, the index and the measured value the message quotes, and the URLs
\* it quotes.
NoLabel == << >>

Err(label, code, i, n) ==
  [label |-> label, code |-> code, i |-> i, n |-> n, urls |-> << >>]

If(c, e) == IF c THEN <<e>> ELSE << >>

\* s.forEach((x, i) => ...) pushing the errors of each element
FlatMapIdx(F(_, _), s) == Flat([i \in 1..Len(s) |-> F(s[i], i)])

titleErrors(label, t, i, brandName) ==
  Let(stripCounterSuffix(t), LAMBDA titleText :
  Let2(TLen(titleText), maxWordRepetition(titleText), LAMBDA len, rep :
  Flat(<<
    If(len < TITLE_MIN \/ len > TITLE_MAX \/ len > TITLE_HARD_MAX,
       Err(label, "title length", i, len)),
    If(~startsWithBrand(titleText, brandName), Err(label, "title brand", i, 0)),
    If(containsCyrillic(titleText), Err(label, "title Cyrillic", i, 0)),
    If(containsEmoji(titleText), Err(label, "title emoji", i, 0)),
    If(rep > 2, Err(label, "title repeats", i, rep))>>)))

bulletErrors(label, b, i) ==
  Let(normalizeOneLine(Render(b)), LAMBDA bNorm :
  Let(TLen(bNorm), LAMBDA len :
  Flat(<<
    If(len < BULLET_MIN \/ len > BULLET_MAX, Err(label, "bullet length", i, len)),
    If(b.lab = << >> \/ TTrim(b.txt) = << >>, Err(label, "bullet format", i, 0)),
    If(b.lab # << >> /\ isAllCaps(b.lab), Err(label, "bullet ALL CAPS", i, 0)),
    If(containsCyrillic(bNorm), Err(label, "bullet Cyrillic", i, 0)),
    If(containsEmoji(bNorm), Err(label, "bullet emoji", i, 0))>>)))

\* lines 361-397: the titles and the bullets of a block
titlesAndBulletsErrors(label, titles, bullets, brandName) ==
  Flat(<<
    IF Len(titles) # 2 THEN <<Err(label, "titles found", 0, Len(titles))>>
    ELSE FlatMapIdx(LAMBDA t, i : titleErrors(label, t, i, brandName), titles),
    IF Len(bullets) # BULLET_COUNT
    THEN <<Err(label, "bullets count", 0, Len(bullets))>>
    ELSE FlatMapIdx(LAMBDA b, i : bulletErrors(label, b, i), bullets)>>)

\* lines 399-404: the description of a block
descriptionErrors(label, descText) ==
  Let(StrLen(descText), LAMBDA descLen :
  Flat(<<
    If(descLen < DESC_MIN \/ descLen > DESC_MAX,
       Err(label, "description length", 0, descLen)),
    If(StrHas(descText, {"cyr"}), Err(label, "description Cyrillic", 0, 0)),
    If(StrHas(descText, {"sun"}), Err(label, "description emoji", 0, 0))>>))

\* lines 406-452: the backend line of a block
backendErrors(label, backendLine, brandName) ==
  Let(asciiNormalizeBackend(backendLine), LAMBDA backendAscii :
  Let(byteLen(backendAscii), LAMBDA bytes :
  Flat(<<
    If(bytes > BACKEND_MAX_BYTES, Err(label, "backend bytes", 0, bytes)),
    If(backendAscii # backendLine /\ THas(backendLine, NonAscii),
       Err(label, "backend non-ASCII", 0, 0)),
    If(containsCyrillic(backendLine), Err(label, "backend Cyrillic", 0, 0)),
    If(containsEmoji(backendLine), Err(label, "backend emoji", 0, 0)),
    If(includesBrand(backendLine, brandName), Err(label, "backend brand", 0, 0)),
    \* backendLine is one line of the block: the "one line only" message
    \* (backendLine.split("\n").length > 1) is never pushed
    If(THas(backendLine, {",", ";"}), Err(label, "backend separators", 0, 0))>>)))

blockErrors(vb, brandName) ==
  Let4(extractSection(vb.text, "Titles", "BulletPoints"),
       extractSection(vb.text, "BulletPoints5", "ProductDescription"),
       extractSection(vb.text, "ProductDescription", "Backend"),
       backendSection(vb.text),
       LAMBDA titlesBlock, bulletsBlock, descBlock, backendBlock :
  Flat(<<
    If(titlesBlock = EmptyStr, Err(vb.label, "Missing Titles section", 0, 0)),
    If(bulletsBlock = EmptyStr, Err(vb.label, "Missing Bullet Points section", 0, 0)),
    If(descBlock = EmptyStr, Err(vb.label, "Missing Product Description section", 0, 0)),
    If(backendBlock = EmptyStr, Err(vb.label, "Missing Backend section", 0, 0)),
    titlesAndBulletsErrors(vb.label, parseTwoTitlesFromTitlesBlock(titlesBlock),
                           parseBulletsFromBulletsBlock(bulletsBlock), brandName),
    descriptionErrors(vb.label, stripDescriptionHeading(descBlock)),
    backendErrors(vb.label, Render(parseBackendLine(backendBlock)), brandName)>>))

AllBlockErrors(vBlocks, brandName) ==
  Flat([i \in 1..Len(vBlocks) |-> blockErrors(vBlocks[i], brandName)])

\* lines 325-343 and, when there is a Phase 2, the blocks
documentErrors(s, urlViolations, phase2, brandName, variants) ==
  Flat(<<
    If(findRegexIndex(s, "Phase1") = 0 \/ findRegexIndex(s, "Phase2") = 0,
       Err(NoLabel, "Missing Phase headings", 0, 0)),
    If(urlViolations # << >>,
       [Err(NoLabel, "URLs found outside", 0, 0) EXCEPT
          !.urls = SubSeq(urlViolations, 1,
                          IF Len(urlViolations) < 5 THEN Len(urlViolations) ELSE 5)]),
    IF phase2 = EmptyStr THEN <<Err(NoLabel, "Cannot find Phase 2 block", 0, 0)>>
    ELSE Let(splitVariantsPhase2(phase2, variants), LAMBDA vBlocks :
         AllBlockErrors(vBlocks, brandName))>>)

validateOutput(text, brandName, variants) ==
  Let(Trim(text), LAMBDA s :
  IF s = EmptyStr
  THEN [ok |-> FALSE, errors |-> <<Err(NoLabel, "Empty output", 0, 0)>>]
  ELSE Let2(findUrlsOutsidePhase1Sources(s), extractPhase2(s), LAMBDA urlViolations, phase2 :
       Let(documentErrors(s, urlViolations, phase2, brandName, variants), LAMBDA errors :
       [ok |-> errors = << >>, errors |-> errors])))

\* the words classifyErrors looks for that a message holds, lower-cased
CodeWords(code) ==
  CASE code = "Empty output" -> {}
    [] code = "Missing Phase headings" -> {"missing"}
    [] code = "URLs found outside" -> {"url"}
    [] code = "Cannot find Phase 2 block" -> {"cannot find"}
    [] code = "Missing Titles section" -> {"missing", "title"}
    [] code = "Missing Bullet Points section" -> {"missing", "bullet"}
    [] code = "Missing Product Description section" -> {"missing", "description"}
    [] code = "Missing Backend section" -> {"missing", "backend"}
    [] code \in {"titles found", "title length", "title brand", "title Cyrillic",
                 "title emoji", "title repeats"} -> {"title"}
    [] code \in {"bullets count", "bullet length", "bullet format", "bullet ALL CAPS",
                 "bullet Cyrillic", "bullet emoji"} -> {"bullet"}
    [] code \in {"description length", "description Cyrillic", "description emoji"}
         -> {"description"}
    [] OTHER -> {"backend"}

\* the URLs of the model and the words of classifyErrors each contains
UrlWords(u) ==
  CASE u = "https://shop.example/title-guide" -> {"title"}
    [] u = "https://shop.example/backend" -> {"backend"}
    [] OTHER -> {}

ErrWords(e) == CodeWords(e.code) \cup UNION {UrlWords(e.urls[i]) : i \in 1..Len(e.urls)}

classifyErrors(errors) ==
  LET e == UNION {ErrWords(errors[i]) : i \in 1..Len(errors)}
  IN  [titles |-> "title" \in e,
       bullets |-> "bullet" \in e,
       description |-> "description" \in e,
       backend |-> "backend" \in e,
       urls |-> "url" \in e,
       format |-> "missing" \in e \/ "cannot find" \in e]

(* ------------------------------ replacers ----------------------------- *)
InsertAt(lines, i, l) ==
  SubSeq(lines, 1, i - 1) \o <<l>> \o SubSeq(lines, i, Len(lines))

replaceBackendLineInBlock(block, newBackendLine) ==
  Let(findRegexIndex(block, "BackendDash"), LAMBDA h :
  IF h = 0 THEN block
  ELSE Let2(SubSeq(block, h + 1, Len(block)), TxtLine(TTrim(newBackendLine)),
            LAMBDA after, new :
       \* the first non-empty line after the heading line
       Let(FirstIndex(after, LAMBDA l : l # Blank), LAMBDA j :
       IF j > 0 /\ after[j].k \notin {"activeHead", "complHead", "specialHead"}
       THEN [block EXCEPT ![h + j] = new]
       ELSE InsertAt(block, h + 1, new))))

\* the whole match of startHeaderRe (the heading and the white space after
\* it) ends where the first non-empty line after the heading starts
replaceSection(block, startHeaderRe, endHeaderRe, replacementWithHeaders) ==
  Let(findRegexIndex(block, startHeaderRe), LAMBDA startIdx :
  IF startIdx = 0 THEN block
  ELSE Let(NonEmpty(DropBlanksStart(SubSeq(block, startIdx + 1, Len(block)))), LAMBDA tail :
       Let2(findRegexIndex(tail, endHeaderRe),
            StrCat(SliceBefore(block, startIdx), replacementWithHeaders),
            LAMBDA endIdxInTail, replaced :
       IF endIdxInTail = 0 THEN replaced
       ELSE Trim(StrCat(replaced, SliceFrom(tail, endIdxInTail))))))

replaceDescriptionInBlock(block, newDesc) ==
  Let2(findRegexIndex(block, "ProductDescription"), findRegexIndex(block, "Backend"),
       LAMBDA startIdx, endIdx :
  IF startIdx = 0 \/ endIdx = 0 \/ endIdx <= startIdx THEN block
  ELSE Let(<<TrimEnd(SliceBefore(block, startIdx)), <<block[startIdx]>>, Trim(newDesc),
             <<Blank>>, NonEmpty(DropBlanksStart(SliceFrom(block, endIdx)))>>,
           LAMBDA parts : Trim(Flat(parts))))

(* --------------------------- post-processing -------------------------- *)
sanitizeBlock(vb, bn) ==
  Let(backendSection(vb.text), LAMBDA backendBlock :
  IF backendBlock = EmptyStr THEN [label |-> vb.label, text |-> vb.text]
  ELSE Let(Render(parseBackendLine(backendBlock)), LAMBDA backendLine :
       Let(asciiNormalizeBackend(backendLine), LAMBDA ascii :
       Let(removeBrandFromBackend(ascii, bn), LAMBDA noBrand :
       Let(collapseSpaces(noBrand), LAMBDA clean :
       [label |-> vb.label, text |-> replaceBackendLineInBlock(vb.text, clean)])))))

\* lines 509-518: Phase 2 put together again from the sanitized blocks
sanitizedPhase2(phase2, rebuilt) ==
  Let2(headerOf(phase2), \E i \in 1..Len(phase2) : ReMatch("Variant", phase2[i]),
       LAMBDA header, hasVariants :
  Let(IF hasVariants THEN <<header>> \o FlatBlocks(rebuilt)
      ELSE <<header, IF rebuilt[1].text # EmptyStr THEN rebuilt[1].text ELSE phase2>>,
      LAMBDA parts :
  Let(JoinLines(parts), LAMBDA joined : Trim(joined))))

sanitizeAllBackendLines(input, bn) ==
  Let(extractPhase2(input), LAMBDA phase2 :
  IF phase2 = EmptyStr THEN input
  ELSE Let2(SliceBefore(input, findRegexIndex(input, "Phase2Listing")),
            splitVariantsPhase2(phase2, 3),
            LAMBDA before, vBlocks :
       Let([i \in 1..Len(vBlocks) |-> sanitizeBlock(vBlocks[i], bn)], LAMBDA rebuilt :
       Let(sanitizedPhase2(phase2, rebuilt), LAMBDA joined :
       Let(StrCat(before, joined), LAMBDA whole : Trim(whole))))))

\* input.replace(re, f) for an expression that matches whole lines: the
\* lines that satisfy P are rewritten by F; the empty lines the
\* expression's leading \s* (when eatBefore) and trailing \s*$ (when
\* eatAfter) take in are dropped with them.
AllBlank(s, i, j) == \A k \in i..j : s[k] = Blank

\* the lines of s whose index is in keep
KeepLines(s, keep) ==
  LET kept == SelectSeq([i \in 1..Len(s) |-> i], LAMBDA i : i \in keep)
  IN  [n \in 1..Len(kept) |-> s[kept[n]]]

ReplaceLines(s, P(_), F(_), eatBefore, eatAfter) ==
  Let({i \in 1..Len(s) : P(s[i])}, LAMBDA hits :
  Let2({i \in 1..Len(s) :
          /\ s[i] = Blank
          /\ \/ eatAfter /\ \E p \in hits : p < i /\ AllBlank(s, p + 1, i)
             \/ eatBefore /\ \E q \in hits : i < q /\ AllBlank(s, i, q - 1)},
       [i \in 1..Len(s) |-> IF i \in hits THEN F(s[i]) ELSE s[i]],
       LAMBDA eaten, rewritten :
  NonEmpty(KeepLines(rewritten, (1..Len(s)) \ eaten))))

refreshTitle(input, i) ==
  ReplaceLines(input,
               LAMBDA l : l.k = "title" /\ l.num = i /\ l.txt # << >>,
               LAMBDA l : [l EXCEPT !.txt = stripCounterSuffix(l),
                                    !.cnt = TLen(stripCounterSuffix(l))],
               TRUE, TRUE)

refreshDescription(input) ==
  Let(extractSectionAround(input, "ProductDescription", "Backend"), LAMBDA block :
  Let(IF block = EmptyStr THEN 0 ELSE StrLen(stripDescriptionHeading(block)), LAMBDA n :
  ReplaceLines(input,
               LAMBDA l : l.k = "descHead" /\ l.cnt >= 0,
               LAMBDA l : [l EXCEPT !.cnt = n],
               FALSE, TRUE)))

backendBytesAround(input) ==
  Let(backendSectionAround(input), LAMBDA block :
  IF block = EmptyStr THEN 0
  ELSE Let(Render(parseBackendLine(block)), LAMBDA line :
       Let(asciiNormalizeBackend(line), LAMBDA ascii : byteLen(ascii))))

refreshBackend(input) ==
  ReplaceLines(input,
               LAMBDA l : l.k = "backendHead" /\ l.cnt >= 0,
               LAMBDA l : [l EXCEPT !.cnt = backendBytesAround(input)],
               FALSE, FALSE)

addBackendBytes(input) ==
  ReplaceLines(input,
               LAMBDA l : l.k = "backendHead" /\ l.cnt < 0,
               LAMBDA l : [l EXCEPT !.cnt = backendBytesAround(input)],
               FALSE, TRUE)

refreshCounters(input) ==
  Let(refreshTitle(input, 1), LAMBDA t1 :
  Let(refreshTitle(t1, 2), LAMBDA t2 :
  Let(refreshDescription(t2), LAMBDA d :
  Let(refreshBackend(d), LAMBDA b :
  addBackendBytes(b)))))

postProcessOutput(text, brandName) ==
  Let(Trim(text), LAMBDA s :
  IF s = EmptyStr THEN s
  ELSE Let(sanitizeAllBackendLines(s, brandName), LAMBDA sanitized :
       Let(refreshCounters(sanitized), LAMBDA refreshed :
       Trim(refreshed))))

(* ------------------------------ URL rules (2) ------------------------- *)
InsertAfterFirst(lines, P(_), l) ==
  LET i == FirstIndex(lines, P)
  IN  IF i = 0 THEN lines ELSE InsertAt(lines, i + 1, l)

PlaceholderUrl == "https://www.amazon.de/"

ensurePhase1Sources(text, urls) ==
  Let(Trim(text), LAMBDA s :
  LET hasSourcesLine == \E i \in 1..Len(s) : s[i].k = "src" /\ s[i].urls # << >>
      insertUrls == IF urls = << >> THEN <<PlaceholderUrl>> ELSE urls
      sourcesLine == SrcLine(insertUrls)
      isDiff(l) == l.k = "diffLine"
  IN  IF s = EmptyStr THEN s
      ELSE IF hasSourcesLine THEN s
      ELSE IF findRegexIndex(s, "Phase1") > 0
           THEN IF \E i \in 1..Len(s) : isDiff(s[i])
                THEN Trim(InsertAfterFirst(s, isDiff, sourcesLine))
                ELSE Trim(<<sourcesLine>> \o s)
      ELSE Trim(<<sourcesLine, Blank>> \o s))

(* --------------------------- backend replies -------------------------- *)
\* What a call of callOpenAI ends in: the fetch is aborted by the timer
\* (an error named AbortError), the backend answers with a non-2xx status
\* (callOpenAI throws Error(message)), or it answers with data, of which
\* text is what extractText returns and sources what extractWebSources
\* returns.
AbortReply == [kind |-> "abort", message |-> "The operation was aborted", text |-> EmptyStr,
               sources |-> << >>]
ErrorReply == [kind |-> "error", message |-> "Rate limit reached", text |-> EmptyStr,
               sources |-> << >>]
OkReply(text, sources) == [kind |-> "ok", message |-> "", text |-> text, sources |-> sources]

extractText(data) == Trim(data.text)

extractWebSources(data) == data.sources

(* ------------------------- targeted fixes (bodies) -------------------- *)
Stages == <<"titles", "bullets", "description", "backend">>

\* the section whose absence makes fix<Stage>AllVariants skip a block
stageSection(kind, block) ==
  CASE kind = "titles" -> extractSection(block, "Titles", "BulletPoints")
    [] kind = "bullets" -> extractSection(block, "BulletPoints5", "ProductDescription")
    [] kind = "description" -> extractSection(block, "ProductDescription", "Backend")
    [] OTHER -> backendSection(block)

\* String(out) on one line: asciiNormalizeBackend turns the line breaks of
\* a reply into separators
OneLine(s) == JoinTokens([i \in 1..Len(s) |-> Render(s[i])])

\* the body of the loop of fixTitlesAllVariants after its await: the block
\* pushed onto fixedBlocks
fixTitlesBlock(vb, data) ==
  Let(Trim(extractText(data)), LAMBDA cleaned :
  IF cleaned = EmptyStr THEN vb
  ELSE [label |-> vb.label,
        text |-> replaceSection(vb.text, "TitlesHeading", "BulletPoints",
                                <<TitlesHead>> \o cleaned \o <<Blank>>)])

fixBulletsBlock(vb, data) ==
  Let(Trim(extractText(data)), LAMBDA cleaned :
  IF cleaned = EmptyStr THEN vb
  ELSE [label |-> vb.label,
        text |-> replaceSection(vb.text, "BulletPoints5", "ProductDescription",
                                <<BulletsHead>> \o cleaned \o <<Blank, DescHead(-1)>>)])

fixDescriptionBlock(vb, data) ==
  Let(Trim(extractText(data)), LAMBDA cleaned :
  Let(StrLen(cleaned), LAMBDA len :
  IF len < DESC_MIN \/ len > DESC_MAX THEN vb
  ELSE [label |-> vb.label, text |-> replaceDescriptionInBlock(vb.text, cleaned)]))

fixBackendBlock(vb, data, brandName) ==
  Let(asciiNormalizeBackend(OneLine(extractText(data))), LAMBDA ascii :
  Let(removeBrandFromBackend(collapseSpaces(ascii), brandName), LAMBDA out :
  IF out = << >> THEN vb
  ELSE Let(IF byteLen(out) > BACKEND_MAX_BYTES
           THEN hardTrimBackendToBytes(out, BACKEND_MAX_BYTES) ELSE out, LAMBDA trimmed :
       [label |-> vb.label, text |-> replaceBackendLineInBlock(vb.text, trimmed)])))

fixBlock(kind, vb, data, brandName) ==
  CASE kind = "titles" -> fixTitlesBlock(vb, data)
    [] kind = "bullets" -> fixBulletsBlock(vb, data)
    [] kind = "description" -> fixDescriptionBlock(vb, data)
    [] OTHER -> fixBackendBlock(vb, data, brandName)

stageFlag(flags, kind) ==
  CASE kind = "titles" -> flags.titles
    [] kind = "bullets" -> flags.bullets
    [] kind = "description" -> flags.description
    [] OTHER -> flags.backend

\* The handler from line 140 on, between two awaits: from stage k
\* (1..4, 5 = past the last), with the loop of the stage's fix function at
\* block i (0 = the function is not entered yet), run to the next call of
\* callOpenAI ("call") or to the end of the targeted repairs ("end").
RECURSIVE runTargeted(_, _, _, _, _, _, _)
runTargeted(final, flags, variants, k, blocks, fixed, i) ==
  IF k > Len(Stages)
  THEN [at |-> "end", final |-> final, k |-> k, blocks |-> << >>, fixed |-> << >>, i |-> 0]
  ELSE IF ~stageFlag(flags, Stages[k])
  THEN runTargeted(final, flags, variants, k + 1, << >>, << >>, 0)
  ELSE IF i = 0
  THEN IF extractPhase2(final) = EmptyStr
       THEN runTargeted(final, flags, variants, k + 1, << >>, << >>, 0)
       ELSE runTargeted(final, flags, variants, k,
                        splitVariantsPhase2(extractPhase2(final), variants), << >>, 1)
  ELSE IF i > Len(blocks)
  THEN runTargeted(rebuildPhase2(final, fixed), flags, variants, k + 1, << >>, << >>, 0)
  ELSE IF stageSection(Stages[k], blocks[i].text) = EmptyStr
  THEN runTargeted(final, flags, variants, k, blocks, Append(fixed, blocks[i]), i + 1)
  ELSE [at |-> "call", final |-> final, k |-> k, blocks |-> blocks, fixed |-> fixed, i |-> i]

(* --------------------- the documents of the model --------------------- *)
\* the largest number of VARIANT blocks in a document the backend returns
MaxBlocks == 4

Brand == Word(<<"L", "u">>)
Url1 == "https://shop.example/p1"

\* a title of n characters that starts with the brand
TitleText(n) == TCat(Word(<<"L", "u", " ">>), Run("x", n - 3))
\* a bullet line of n characters in the required shape
GoodBullet(n) == BulletLine(Word(<<"L", "a", "b">>), Run("x", n - 11))
KwGood == Word(<<"f", "e", " ", "g", "e">>)
\* a token that holds the brand without being it
KwBrandInside == Word(<<"l", "u", "x", " ", "g", "e">>)
\* the scenario of the specification: brand, word, comma, word
KwLumina == Word(<<"L", "u", " ", "f", "e", ",", " ", "g", "e">>)
KwBrandOnly == Brand

\* A block of the output format: titles of t characters, nb bullets of b
\* characters, a description of d characters, the backend line kw; c is the
\* number the count annotations carry.
BlockLines(t, nb, b, d, kw, c) ==
  <<TitlesHead, TitleLine(1, TitleText(t), c), TitleLine(2, TitleText(t), c), BulletsHead>>
  \o [i \in 1..nb |-> GoodBullet(b)]
  \o <<DescHead(c), TxtLine(Run("x", d)), BackendHead(c), TxtLine(kw), ActiveHead,
       TxtLine(Word(<<"N", "o">>))>>

GoodBlock == BlockLines(TITLE_MIN, BULLET_COUNT, BULLET_MIN, DESC_MIN, KwGood, 0)
\* every section kind violates a constraint
BadBlock == BlockLines(TITLE_MIN - 1, BULLET_COUNT - 1, BULLET_MIN, 2000, KwBrandInside, 0)
BadBullets == BlockLines(TITLE_MIN, BULLET_COUNT - 1, BULLET_MIN, DESC_MIN, KwGood, 0)
BadDescription == BlockLines(TITLE_MIN, BULLET_COUNT, BULLET_MIN, 2000, KwGood, 0)

Phase1Lines == <<P1Head, DiffLine, SrcLine(<<Url1>>), Blank>>

Letters == <<"A", "B", "C">>

Labelled(blocks) ==
  Flat([i \in 1..Len(blocks) |->
          <<VariantLine(Letters[((i - 1) % 3) + 1])>> \o blocks[i]])

\* one block without a VARIANT line
Doc1(block) == Phase1Lines \o <<P2Head>> \o block
\* blocks under VARIANT A, B, C, A, ...
DocV(blocks) == Phase1Lines \o <<P2Head>> \o Labelled(blocks)
\* a text without the Phase 2 heading
DocNoPhase2 == Phase1Lines \o GoodBlock

(* ------------------------------ the handler --------------------------- *)
VARIABLES
  hasKey,       \* env.OPENAI_API_KEY is set
  body,         \* the request body
  pool,         \* what the backend answers in this run
  pc,           \* where the handler is: at an await, done, or thrown
  calls,        \* the calls of callOpenAI issued so far, in order
  replies,      \* what each finished call ended in
  sources,      \* const sources (line 90)
  output,       \* let output / let final
  vlog,         \* v1.ok, v2.ok, v3.ok as far as computed
  flags,        \* const flags (line 141)
  stage,        \* the targeted fix function running (index into Stages)
  vBlocks,      \* its vBlocks
  fixedBlocks,  \* its fixedBlocks
  bi,           \* the block its loop is at
  response,     \* the Response returned
  pp,           \* the post-processor applied on its own (SpecPost)
  val,          \* the validator applied on its own (SpecVal)
  fx            \* the body of a targeted fix applied on its own (SpecFix)

hvars == <<hasKey, body, pool, pc, calls, replies, sources, output, vlog, flags, stage,
           vBlocks, fixedBlocks, bi, response>>
vars == <<hasKey, body, pool, pc, calls, replies, sources, output, vlog, flags, stage,
          vBlocks, fixedBlocks, bi, response, pp, val, fx>>

NoFlags == [titles |-> FALSE, bullets |-> FALSE, description |-> FALSE, backend |-> FALSE,
            urls |-> FALSE, format |-> FALSE]
NoData == OkReply(EmptyStr, << >>)
NoResponse == [status |-> 0, keys |-> {}, error |-> "", output |-> EmptyStr, ok |-> FALSE,
               remaining_issues |-> << >>, debug |-> NoData]
NoPP == [step |-> 0, brand |-> << >>, in |-> EmptyStr, once |-> EmptyStr, twice |-> EmptyStr]
NoVerdict == [ok |-> FALSE, errors |-> << >>]
NoVal == [step |-> 0, in |-> EmptyStr, brand |-> << >>, variants |-> 1, doc |-> EmptyStr,
          v |-> NoVerdict, twin |-> EmptyStr, w |-> NoVerdict]
NoBlock == [label |-> EmptyStr, text |-> EmptyStr]
NoFx == [step |-> 0, kind |-> "titles", vb |-> NoBlock, data |-> NoData, brand |-> << >>,
         out |-> NoBlock]

\* json({ error }, status)
ErrorResponse(msg, status) ==
  [NoResponse EXCEPT !.status = status, !.keys = {"error"}, !.error = msg]
\* json({ output }, 200)
OutputResponse(out) ==
  [NoResponse EXCEPT !.status = 200, !.keys = {"output"}, !.output = out]

\* const variants = variantsRaw === 3 ? 3 : 1
variantsOf(b) == IF b.variants = 3 THEN 3 ELSE 1

Bodies ==
  {[json |-> "invalid", marketplace |-> "", brand_name |-> << >>, user_prompt |-> "",
    variants |-> 1],
   [json |-> "null", marketplace |-> "", brand_name |-> << >>, user_prompt |-> "",
    variants |-> 1]}
  \cup [json : {"object"}, marketplace : {"", "amazon.de"}, brand_name : {<< >>, Brand},
        user_prompt : {"", "serum"}, variants : {1, 2, 3}]

Pools == {"single", "variants", "many"}

Init ==
  /\ hasKey \in BOOLEAN
  /\ body \in Bodies
  /\ pool \in Pools
  /\ pc = "entry"
  /\ calls = << >>
  /\ replies = << >>
  /\ sources = << >>
  /\ output = EmptyStr
  /\ vlog = << >>
  /\ flags = NoFlags
  /\ stage = 0
  /\ vBlocks = << >>
  /\ fixedBlocks = << >>
  /\ bi = 0
  /\ response = NoResponse
  /\ pp = NoPP
  /\ val = NoVal
  /\ fx = NoFx

(* ------------------- what the backend answers in a run ---------------- *)
NBlocks(block, n) == [i \in 1..n |-> block]

\* the texts a full generation (first pass or repair pass) can come back with
\* a URL whose text holds the word "title"
UrlTitleGuide == "https://shop.example/title-guide"
\* the description quotes the URL u
BlockWithUrl(u) ==
  [GoodBlock EXCEPT ![BULLET_COUNT + 6] = [@ EXCEPT !.urls = <<u>>]]

FullTexts(p) ==
  CASE p = "single" ->
         {EmptyStr, Doc1(GoodBlock), Doc1(BadBlock), Doc1(BadDescription), DocNoPhase2,
          Doc1(BlockWithUrl(UrlTitleGuide))}
    [] p = "variants" ->
         {DocV(<<GoodBlock, GoodBlock, GoodBlock>>), DocV(<<GoodBlock, BadBullets, GoodBlock>>),
          DocV(<<BadDescription, GoodBlock, GoodBlock>>)}
    [] OTHER -> {DocV(NBlocks(BadBlock, n)) : n \in 1..MaxBlocks}

FirstReplies(p) ==
  {AbortReply, ErrorReply} \cup {OkReply(t, <<Url1>>) : t \in FullTexts(p)}

RepairReplies(p) ==
  {AbortReply, ErrorReply}
  \cup IF p = "many" THEN {OkReply(EmptyStr, << >>)}
       ELSE {OkReply(t, << >>) : t \in FullTexts(p)}

\* a section that satisfies the constraints of its kind
GoodSection(kind) ==
  CASE kind = "titles" ->
         <<TitleLine(1, TitleText(TITLE_MIN), -1), TitleLine(2, TitleText(TITLE_MIN), -1)>>
    [] kind = "bullets" -> [i \in 1..BULLET_COUNT |-> GoodBullet(BULLET_MIN)]
    [] kind = "description" -> <<TxtLine(Run("x", DESC_MIN))>>
    [] OTHER -> <<TxtLine(KwGood)>>

TargetedReplies(p, kind) ==
  {AbortReply, ErrorReply, OkReply(GoodSection(kind), << >>)}
  \cup IF p = "many" THEN {} ELSE {OkReply(EmptyStr, << >>)}

(* ------------------------------- actions ------------------------------ *)
Call(name, block) == [stage |-> name, block |-> block]

\* json({ output: final, ok: v3.ok, remaining_issues: ... }, 200)
\* a handler that refuses a final document with violations left
FinalResponseStrict(final, v3) ==
  IF v3.ok
  THEN [NoResponse EXCEPT !.status = 200, !.keys = {"output", "ok", "remaining_issues"},
                          !.output = final, !.ok = TRUE]
  ELSE [NoResponse EXCEPT !.status = 422, !.keys = {"error"},
                          !.error = "Listing violates constraints"]

FinalResponse(final, v3) ==
  [NoResponse EXCEPT !.status = 200, !.keys = {"output", "ok", "remaining_issues"},
                     !.output = final, !.ok = v3.ok,
                     !.remaining_issues = IF v3.ok THEN << >> ELSE v3.errors]

\* a handler that goes on repairing a document that validates
AcceptsNever(v) == FALSE

\* if (v1.ok) return ..., if (v2.ok) return ... (lines 98 and 133)
Accepts(v) == v.ok

\* a catch that passes the message of the error on as it is
CatchMessageRaw(e) == e.message

\* catch (e): the message of the response
CatchMessage(e) ==
  IF e.kind = "abort" THEN "Timeout while calling OpenAI. Try again." ELSE e.message

\* lines 2-4
Entry ==
  /\ pc = "entry"
  /\ IF ~hasKey
     THEN /\ response' = ErrorResponse("OPENAI_API_KEY missing in runtime env", 500)
          /\ pc' = "done"
     ELSE /\ pc' = "body"
          /\ UNCHANGED response
  /\ UNCHANGED <<hasKey, body, pool, calls, replies, sources, output, vlog, flags, stage,
                 vBlocks, fixedBlocks, bi, pp, val, fx>>

\* lines 6-77: from the body read to the first call of callOpenAI
ReadBody ==
  /\ pc = "body"
  /\ IF body.json = "invalid"
     THEN /\ response' = ErrorResponse("Invalid JSON body", 400)
          /\ pc' = "done"
          /\ UNCHANGED calls
     ELSE IF body.json = "null"
     \* body.marketplace of null: a TypeError outside any try
     THEN /\ pc' = "thrown"
          /\ UNCHANGED <<response, calls>>
     ELSE IF body.marketplace = ""
     THEN /\ response' = ErrorResponse("Missing marketplace", 400)
          /\ pc' = "done"
          /\ UNCHANGED calls
     ELSE IF body.brand_name = << >>
     THEN /\ response' = ErrorResponse("Missing brand_name", 400)
          /\ pc' = "done"
          /\ UNCHANGED calls
     ELSE IF body.user_prompt = ""
     THEN /\ response' = ErrorResponse("Missing user_prompt", 400)
          /\ pc' = "done"
          /\ UNCHANGED calls
     ELSE /\ calls' = Append(calls, Call("first", 0))
          /\ pc' = "first"
          /\ UNCHANGED response
  /\ UNCHANGED <<hasKey, body, pool, replies, sources, output, vlog, flags, stage,
                 vBlocks, fixedBlocks, bi, pp, val, fx>>

\* lines 205-211
Catch(e) ==
  /\ response' = ErrorResponse(CatchMessage(e), 500)
  /\ pc' = "done"
  /\ UNCHANGED <<calls, sources, output, vlog, flags, stage, vBlocks, fixedBlocks, bi>>

\* lines 86-113: the first call has ended in r
FirstReply ==
  /\ pc = "first"
  /\ \E r \in FirstReplies(pool) :
       /\ replies' = Append(replies, r)
       /\ IF r.kind # "ok" THEN Catch(r)
          ELSE IF extractText(r) = EmptyStr
          THEN /\ response' = [ErrorResponse("Empty output from OpenAI", 500)
                                 EXCEPT !.keys = {"error", "debug"}, !.debug = r]
               /\ pc' = "done"
               /\ UNCHANGED <<calls, sources, output, vlog, flags, stage, vBlocks,
                              fixedBlocks, bi>>
          ELSE \E out \in {postProcessOutput(
                              ensurePhase1Sources(extractText(r), extractWebSources(r)),
                              body.brand_name)} :
               \E v1 \in {validateOutput(out, body.brand_name, variantsOf(body))} :
                   /\ sources' = extractWebSources(r)
                   /\ output' = out
                   /\ vlog' = Append(vlog, v1.ok)
                   /\ IF Accepts(v1)
                      THEN /\ response' = OutputResponse(out)
                           /\ pc' = "done"
                           /\ UNCHANGED calls
                      ELSE /\ calls' = Append(calls, Call("repair", 0))
                           /\ pc' = "repair"
                           /\ UNCHANGED response
                   /\ UNCHANGED <<flags, stage, vBlocks, fixedBlocks, bi>>
  /\ UNCHANGED <<hasKey, body, pool, pp, val, fx>>

\* lines 140-204 between two awaits: rt is where runTargeted stopped, log
\* the validation verdicts so far
Continue(rt, log) ==
  IF rt.at = "call"
  THEN /\ calls' = Append(calls, Call(Stages[rt.k], rt.i))
       /\ pc' = "targeted"
       /\ output' = rt.final
       /\ vlog' = log
       /\ stage' = rt.k
       /\ vBlocks' = rt.blocks
       /\ fixedBlocks' = rt.fixed
       /\ bi' = rt.i
       /\ UNCHANGED response
  ELSE \E final \in {postProcessOutput(rt.final, body.brand_name)} :
       \E v3 \in {validateOutput(final, body.brand_name, variantsOf(body))} :
           /\ response' = FinalResponse(final, v3)
           /\ pc' = "done"
           /\ output' = final
           /\ vlog' = Append(log, v3.ok)
           /\ stage' = rt.k
           /\ vBlocks' = << >>
           /\ fixedBlocks' = << >>
           /\ bi' = 0
           /\ UNCHANGED calls

\* lines 122-145: the repair call has ended in r
RepairReply ==
  /\ pc = "repair"
  /\ \E r \in RepairReplies(pool) :
       /\ replies' = Append(replies, r)
       /\ IF r.kind # "ok" THEN Catch(r)
          ELSE \E out \in {postProcessOutput(
                              ensurePhase1Sources(
                                IF extractText(r) # EmptyStr THEN extractText(r) ELSE output,
                                IF extractWebSources(r) # << >> THEN extractWebSources(r)
                                ELSE sources),
                              body.brand_name)} :
               \E v2 \in {validateOutput(out, body.brand_name, variantsOf(body))} :
                   IF Accepts(v2) \/ extractPhase2(out) = EmptyStr
                   THEN /\ response' = OutputResponse(out)
                        /\ pc' = "done"
                        /\ output' = out
                        /\ vlog' = Append(vlog, v2.ok)
                        /\ UNCHANGED <<calls, flags, stage, vBlocks, fixedBlocks, bi>>
                   ELSE \E fl \in {classifyErrors(v2.errors)} :
                        /\ flags' = fl
                        /\ Continue(runTargeted(out, fl, variantsOf(body), 1, << >>, << >>, 0),
                                    Append(vlog, v2.ok))
  /\ UNCHANGED <<hasKey, body, pool, sources, pp, val, fx>>

\* the rest of the loop body of fix<Stage>AllVariants after its await
\* (lines 615-625, 671-685, 731-746, 795-811), then on to the next await
TargetedReply ==
  /\ pc = "targeted"
  /\ \E r \in TargetedReplies(pool, Stages[stage]) :
       /\ replies' = Append(replies, r)
       /\ IF r.kind # "ok" THEN Catch(r)
          ELSE Continue(runTargeted(output, flags, variantsOf(body), stage, vBlocks,
                                    Append(fixedBlocks,
                                           fixBlock(Stages[stage], vBlocks[bi], r,
                                                    body.brand_name)),
                                    bi + 1),
                        vlog)
  /\ UNCHANGED <<hasKey, body, pool, sources, flags, pp, val, fx>>

Next == Entry \/ ReadBody \/ FirstReply \/ RepairReply \/ TargetedReply

Spec == Init /\ [][Next]_vars

(* ----------------- the post-processor applied on its own -------------- *)
KwLong == Word(<<"f", "e", " ", "g", "e", " ", "x", "x">>)
KwUmlaut == Word(<<"f", "e", " ", "u_uml", "b", "e", "l">>)

\* blocks whose titles, descriptions and backend lines differ in length
BlockA == BlockLines(TITLE_MIN, BULLET_COUNT, BULLET_MIN, DESC_MIN, KwGood, 0)
BlockB == BlockLines(TITLE_MIN + 5, BULLET_COUNT, BULLET_MIN, DESC_MIN + 100, KwLong, 0)
BlockC == BlockLines(TITLE_MIN + 9, BULLET_COUNT, BULLET_MIN, DESC_MIN + 200, KwUmlaut, 0)
\* the backend line is the brand token alone, is empty
BlockBrandOnly == BlockLines(TITLE_MIN, BULLET_COUNT, BULLET_MIN, DESC_MIN, KwBrandOnly, 0)
BlockNoKeywords == BlockLines(TITLE_MIN, BULLET_COUNT, BULLET_MIN, DESC_MIN, << >>, 0)
\* the scenario of the specification, without count annotations
BlockLumina == BlockLines(TITLE_MIN, BULLET_COUNT, BULLET_MIN, DESC_MIN, KwLumina, -1)

\* a backend line of 263 bytes, none of them outside ASCII
KwTooLong == TCat(Word(<<"f", "e", " ">>), Run("x", BACKEND_MAX_BYTES + 10))
BlockLongBackend ==
  BlockLines(TITLE_MIN, BULLET_COUNT, BULLET_MIN, DESC_MIN, KwTooLong, 0)
\* two lines under the backend heading: the brand alone, then the keywords
BlockBrandThenKeywords ==
  InsertAt(BlockBrandOnly, BULLET_COUNT + 9, TxtLine(KwLumina))

PostBlocks ==
  {BlockA, BlockB, BlockC, BlockBrandOnly, BlockNoKeywords, BlockLumina, BadBlock,
   BlockLongBackend, BlockBrandThenKeywords}
VariantBlocks == {BlockA, BlockB, BlockC, BlockLumina}

PostDocs ==
  {EmptyStr, DocNoPhase2}
  \cup {Doc1(b) : b \in PostBlocks}
  \cup {DocV(<<b>>) : b \in PostBlocks}
  \cup {DocV(<<a, b, c>>) : a \in VariantBlocks, b \in VariantBlocks, c \in VariantBlocks}

PostBrands == {<< >>, Brand}

InitPost ==
  /\ hasKey = TRUE
  /\ body = [json |-> "object", marketplace |-> "amazon.de", brand_name |-> Brand,
             user_prompt |-> "serum", variants |-> 3]
  /\ pool = "single"
  /\ pc = "entry"
  /\ calls = << >>
  /\ replies = << >>
  /\ sources = << >>
  /\ output = EmptyStr
  /\ vlog = << >>
  /\ flags = NoFlags
  /\ stage = 0
  /\ vBlocks = << >>
  /\ fixedBlocks = << >>
  /\ bi = 0
  /\ response = NoResponse
  /\ \E d \in PostDocs, b \in PostBrands : pp = [NoPP EXCEPT !.in = d, !.brand = b]
  /\ val = NoVal
  /\ fx = NoFx

\* output = postProcessOutput(output, { brandName, cfg: CFG })
PostOnce ==
  /\ pp.step = 0
  /\ pp' = [pp EXCEPT !.step = 1, !.once = postProcessOutput(pp.in, pp.brand)]
  /\ UNCHANGED <<hvars, val, fx>>

\* the same statement on its own result (lines 94, 129 and 200 of a run)
PostTwice ==
  /\ pp.step = 1
  /\ pp' = [pp EXCEPT !.step = 2, !.twice = postProcessOutput(pp.once, pp.brand)]
  /\ UNCHANGED <<hvars, val, fx>>

NextPost == PostOnce \/ PostTwice

SpecPost == InitPost /\ [][NextPost]_vars

(* ------------------- the validator applied on its own ----------------- *)
\* the handler and the other functions at rest
Idle ==
  /\ hasKey = TRUE
  /\ body = [json |-> "object", marketplace |-> "amazon.de", brand_name |-> Brand,
             user_prompt |-> "serum", variants |-> 3]
  /\ pool = "single"
  /\ pc = "entry"
  /\ calls = << >>
  /\ replies = << >>
  /\ sources = << >>
  /\ output = EmptyStr
  /\ vlog = << >>
  /\ flags = NoFlags
  /\ stage = 0
  /\ vBlocks = << >>
  /\ fixedBlocks = << >>
  /\ bi = 0
  /\ response = NoResponse

\* a block without its lines from..to
Without(block, from, to) ==
  SubSeq(block, 1, from - 1) \o SubSeq(block, to + 1, Len(block))

BadTitles == BlockLines(TITLE_MIN - 1, BULLET_COUNT, BULLET_MIN, DESC_MIN, KwGood, 0)
\* a token followed by 260 periods
KwDots == TCat(Word(<<"f", "e">>), Run(".", BACKEND_MAX_BYTES + 10))
\* two lines under the backend heading: the brand alone, then KwDots
BlockBrandThenDots == InsertAt(BlockBrandOnly, BULLET_COUNT + 9, TxtLine(KwDots))
\* blocks that lack one section, heading and body
BlockNoTitles == Without(GoodBlock, 1, 3)
BlockNoBullets == Without(GoodBlock, 4, BULLET_COUNT + 4)
BlockNoDescription == Without(GoodBlock, BULLET_COUNT + 5, BULLET_COUNT + 6)
BlockNoBackend == Without(GoodBlock, BULLET_COUNT + 7, BULLET_COUNT + 8)

\* six bullet lines
BlockSixBullets ==
  BlockLines(TITLE_MIN, BULLET_COUNT + 1, BULLET_MIN, DESC_MIN, KwGood, 0)
\* the brand inside a longer token of the backend line
BlockBrandInside ==
  BlockLines(TITLE_MIN, BULLET_COUNT, BULLET_MIN, DESC_MIN, KwBrandInside, 0)

ValBlocks ==
  {GoodBlock, BadBlock, BadTitles, BadBullets, BadDescription, BlockC, BlockLumina,
   BlockLongBackend, BlockBrandThenDots, BlockNoTitles, BlockNoBullets,
   BlockNoDescription, BlockNoBackend, BlockWithUrl(Url1), BlockWithUrl(UrlTitleGuide),
   BlockSixBullets, BlockBrandInside}

ValDocs ==
  {EmptyStr, DocNoPhase2}
  \cup {Doc1(b) : b \in ValBlocks}
  \cup {DocV(<<b>>) : b \in ValBlocks}
  \cup {DocV(<<GoodBlock, b>>) : b \in ValBlocks}
  \cup {DocV(<<GoodBlock, b, GoodBlock>>) : b \in ValBlocks}
  \cup {DocV(<<b, GoodBlock, GoodBlock>>) : b \in ValBlocks}

InitVal ==
  /\ Idle
  /\ pp = NoPP
  /\ fx = NoFx
  /\ \E d \in ValDocs, n \in {1, 3} :
        val = [NoVal EXCEPT !.in = d, !.brand = Brand, !.variants = n]

\* lines 94-96 (and 129-131, 200-201): the text is post-processed, then
\* validated
Validate ==
  /\ val.step = 0
  /\ \E out \in {postProcessOutput(val.in, val.brand)} :
        val' = [val EXCEPT !.step = 1, !.doc = out,
                           !.v = validateOutput(out, val.brand, val.variants)]
  /\ UNCHANGED <<hvars, pp, fx>>

\* the numbers written into count annotations
AnnotationValues == {0, 1234567}

\* the document with n in each of its (Chars: ...) and (Bytes: ...)
\* annotations
Renumber(doc, n) ==
  [i \in 1..Len(doc) |-> IF doc[i].cnt >= 0 THEN [doc[i] EXCEPT !.cnt = n] ELSE doc[i]]

\* validateOutput on a document that differs in the numbers of the count
\* annotations only
Revalidate ==
  /\ val.step = 1
  /\ \E n \in AnnotationValues :
       \E t \in {Renumber(val.doc, n)} :
         val' = [val EXCEPT !.step = 2, !.twin = t,
                            !.w = validateOutput(t, val.brand, val.variants)]
  /\ UNCHANGED <<hvars, pp, fx>>

NextVal == Validate \/ Revalidate

SpecVal == InitVal /\ [][NextVal]_vars

(* -------------- the body of a targeted fix applied on its own --------- *)
\* a reply that breaks the constraints of the section asked for: one short
\* title without the brand, four bullets, a short description, the brand
\* alone
BadSection(kind) ==
  CASE kind = "titles" -> <<TitleLine(1, Run("x", 100), -1)>>
    [] kind = "bullets" -> [i \in 1..(BULLET_COUNT - 1) |-> GoodBullet(BULLET_MIN)]
    [] kind = "description" -> <<TxtLine(Run("x", 2000))>>
    [] OTHER -> <<TxtLine(Brand)>>

\* a reply that satisfies them and differs from what GoodBlock holds
OtherSection(kind) ==
  CASE kind = "titles" ->
         <<TitleLine(1, TitleText(TITLE_MAX), -1), TitleLine(2, TitleText(TITLE_MAX), -1)>>
    [] kind = "bullets" -> [i \in 1..BULLET_COUNT |-> GoodBullet(BULLET_MAX)]
    [] kind = "description" -> <<TxtLine(Run("x", DESC_MAX))>>
    [] OTHER -> <<TxtLine(KwLong)>>

FixReplies(kind) ==
  {OkReply(EmptyStr, << >>), OkReply(GoodSection(kind), << >>),
   OkReply(OtherSection(kind), << >>), OkReply(BadSection(kind), << >>)}

FixBlocks == {GoodBlock, BadBlock, BlockB, BlockNoBullets}

InitFix ==
  /\ Idle
  /\ pp = NoPP
  /\ val = NoVal
  /\ \E k \in {"titles", "bullets", "description", "backend"}, b \in FixBlocks,
         l \in {EmptyStr, <<VariantLine("A")>>} :
        \E r \in FixReplies(k) :
          fx = [step |-> 0, kind |-> k, vb |-> [label |-> l, text |-> b], data |-> r,
                brand |-> Brand, out |-> NoBlock]

\* one turn of the loop of fix<Kind>AllVariants: the block is passed on
\* when it lacks the section, else the reply of the call is dealt with
FixOne ==
  /\ fx.step = 0
  /\ fx' = [fx EXCEPT !.step = 1,
                      !.out = IF stageSection(fx.kind, fx.vb.text) = EmptyStr THEN fx.vb
                              ELSE fixBlock(fx.kind, fx.vb, fx.data, fx.brand)]
  /\ UNCHANGED <<hvars, pp, val>>

NextFix == FixOne

SpecFix == InitFix /\ [][NextFix]_vars

(* ------------------------------- claims ------------------------------- *)
TargetedStages == {"titles", "bullets", "description", "backend"}

StageRank(name) ==
  CASE name = "first" -> 0 [] name = "repair" -> 1 [] name = "titles" -> 2
    [] name = "bullets" -> 3 [] name = "description" -> 4 [] OTHER -> 5

\* C1: the backend calls are issued one at a time and never retried: one
\* initial call, at most one full-repair call and only after a failed first
\* validation, targeted calls only after a failed second validation, at
\* most one per section kind per variant block, in the order titles,
\* bullets, description, backend; a request with requested variant count V
\* makes at most 2 + 4 * V backend calls.
C1_CallsSequentialAndBounded ==
  /\ Len(replies) <= Len(calls) /\ Len(calls) <= Len(replies) + 1
  /\ \A i \in 1..Len(calls) : (calls[i].stage = "first") <=> (i = 1)
  /\ \A i \in 1..Len(calls) :
        calls[i].stage = "repair" => i = 2 /\ Len(vlog) >= 1 /\ ~vlog[1]
  /\ \A i \in 1..Len(calls) :
        calls[i].stage \in TargetedStages => Len(vlog) >= 2 /\ ~vlog[1] /\ ~vlog[2]
  /\ \A i, j \in 1..Len(calls) :
        i < j => /\ StageRank(calls[i].stage) <= StageRank(calls[j].stage)
                 /\ calls[i] # calls[j]
  /\ Len(calls) <= 2 + 4 * variantsOf(body)

\* C2: a document that validates after the initial call is returned with
\* status 200 and no further call is issued; one that validates after the
\* full-repair call is returned with status 200 and no targeted call is
\* issued; a targeted call is issued only after two failed validations.
C2_TerminalAccept ==
  /\ (Len(vlog) >= 1 /\ vlog[1]) =>
        /\ pc = "done" /\ Len(calls) = 1
        /\ response.status = 200 /\ "output" \in response.keys /\ response.output = output
  /\ (Len(vlog) >= 2 /\ vlog[2]) =>
        /\ pc = "done" /\ Len(calls) = 2
        /\ response.status = 200 /\ "output" \in response.keys /\ response.output = output
  /\ \A i \in 1..Len(calls) :
        calls[i].stage \in TargetedStages => Len(vlog) >= 2 /\ ~vlog[1] /\ ~vlog[2]

\* the repaired document validated: returned after two calls
C2_Witness ==
  /\ pc = "done" /\ vlog = <<FALSE, TRUE>> /\ Len(calls) = 2
  /\ response.status = 200 /\ response.output = output

\* every backend call of the run has answered, the first with a text
NoCallFailed ==
  /\ replies # << >>
  /\ \A i \in 1..Len(replies) : replies[i].kind = "ok"
  /\ extractText(replies[1]) # EmptyStr

\* C3: when the initial call returned a non-empty text and no backend call
\* failed, the handler never ends in anything but status 200 with a
\* document, whatever violations validation found at any stage.
C3_ViolationsNeverAbort ==
  (NoCallFailed /\ pc \notin {"first", "repair", "targeted"}) =>
    /\ pc = "done"
    /\ response.status = 200
    /\ "output" \in response.keys
    /\ response.output # EmptyStr

\* all three validations failed and the document is returned all the same
C3_Witness ==
  /\ NoCallFailed /\ pc = "done" /\ vlog = <<FALSE, FALSE, FALSE>>
  /\ response.status = 200 /\ response.remaining_issues # << >>

\* C4: a 200 response whose document does not pass validation carries a
\* non-empty remaining_issues and ok = false; and a response carries
\* ok = true exactly when its remaining_issues is empty.
C4_InvalidDocumentListsIssues ==
  (pc = "done" /\ response.status = 200) =>
    /\ ~validateOutput(response.output, body.brand_name, variantsOf(body)).ok =>
          /\ {"ok", "remaining_issues"} \subseteq response.keys
          /\ response.remaining_issues # << >>
          /\ ~response.ok
    /\ "ok" \in response.keys => (response.ok <=> response.remaining_issues = << >>)

\* C5: when the initial call is aborted by its timer the handler returns
\* one error response: a failure status, the error message alone in the
\* body, the message that of a timeout, and no further call.
C5_InitialTimeout ==
  (replies # << >> /\ replies[1].kind = "abort") =>
    /\ pc = "done" /\ Len(calls) = 1 /\ Len(replies) = 1
    /\ response.status >= 400
    /\ response.keys = {"error"}
    /\ response.error = "Timeout while calling OpenAI. Try again."

C5_Witness ==
  /\ replies = <<AbortReply>> /\ pc = "done"
  /\ response.status = 500 /\ response.keys = {"error"}

\* C6: when the full-repair call or a targeted call times out or fails,
\* the handler still returns, with status 200, the document the step
\* before had produced.
C6_FailedRepairReturnsDocument ==
  (pc = "done" /\ \E i \in 2..Len(replies) : replies[i].kind # "ok") =>
    /\ response.status = 200
    /\ "output" \in response.keys
    /\ response.output = output

ValidRequest ==
  /\ hasKey /\ body.json = "object"
  /\ body.marketplace # "" /\ body.brand_name # << >> /\ body.user_prompt # ""

\* the answer C7 names for a request that is not valid
RefusalOf(b) ==
  IF ~hasKey THEN ErrorResponse("OPENAI_API_KEY missing in runtime env", 500)
  ELSE IF b.json = "invalid" THEN ErrorResponse("Invalid JSON body", 400)
  ELSE IF b.marketplace = "" THEN ErrorResponse("Missing marketplace", 400)
  ELSE IF b.brand_name = << >> THEN ErrorResponse("Missing brand_name", 400)
  ELSE ErrorResponse("Missing user_prompt", 400)

\* C7: no backend call is issued unless the key is configured, the body
\* is valid JSON and marketplace, brand_name and user_prompt are non-empty;
\* otherwise the handler answers at once, 500 without the key, else 400
\* naming the first failing item.
C7_NoCallUnlessValid ==
  /\ calls # << >> => ValidRequest
  /\ (~ValidRequest /\ ~(pc = "entry" \/ (hasKey /\ pc = "body"))) =>
        /\ pc = "done"
        /\ calls = << >>
        /\ response = RefusalOf(body)

\* C8: every response is a success that carries the document or a failure
\* whose body is the error message alone.
C8_FailureIsMessageOnly ==
  pc = "done" =>
    \/ response.status = 200 /\ "output" \in response.keys
    \/ response.status >= 400 /\ response.keys = {"error"}

\* C9: post-processing the post-processed document changes nothing.
C9_PostProcessIdempotent == pp.step = 2 => pp.twice = pp.once

\* the count annotations of a block against the values measured in it
CountersOfBlockTrue(block) ==
  \A i \in 1..Len(block) :
    /\ (block[i].k = "title" /\ block[i].cnt >= 0) => block[i].cnt = TLen(block[i].txt)
    /\ (block[i].k = "descHead" /\ block[i].cnt >= 0) =>
          block[i].cnt = StrLen(stripDescriptionHeading(
                                  extractSection(block, "ProductDescription", "Backend")))
    /\ (block[i].k = "backendHead" /\ block[i].cnt >= 0) =>
          block[i].cnt = byteLen(Render(parseBackendLine(backendSection(block))))

\* C10: after post-processing every count annotation of every variant
\* block equals the value measured in that same block: the length of the
\* title, of the block's description, the bytes of the block's backend line.
C10_CountersMatchOwnBlock ==
  (pp.step >= 1 /\ extractPhase2(pp.once) # EmptyStr) =>
    \A b \in {splitVariantsPhase2(extractPhase2(pp.once), 3)[i] :
               i \in 1..Len(splitVariantsPhase2(extractPhase2(pp.once), 3))} :
      CountersOfBlockTrue(b.text)

\* the variant blocks of a document, as the post-processor finds them
BlocksOf(doc) ==
  IF extractPhase2(doc) = EmptyStr THEN << >>
  ELSE splitVariantsPhase2(extractPhase2(doc), 3)

\* the backend line of a block, as the parser reads it
BackendLineOf(block) == Render(parseBackendLine(backendSection(block)))

\* the tokens p are the first tokens of t
IsTokenPrefix(p, t) == Len(p) <= Len(t) /\ p = SubSeq(t, 1, Len(p))

\* the line sanitizeAllBackendLines computes from the line it read
SanitizedLine(line, brand) ==
  collapseSpaces(removeBrandFromBackend(asciiNormalizeBackend(line), brand))

\* C11: after post-processing the backend line of every variant block has
\* at most BACKEND_MAX_BYTES bytes, and is made of the first tokens of the
\* transliterated line, none of them cut.
C11_BackendWithinBudget ==
  pp.step >= 1 =>
    \A i \in 1..Len(BlocksOf(pp.once)) :
      /\ byteLen(BackendLineOf(BlocksOf(pp.once)[i].text)) <= BACKEND_MAX_BYTES
      /\ IsTokenPrefix(Tokens(BackendLineOf(BlocksOf(pp.once)[i].text)),
                       Tokens(SanitizedLine(BackendLineOf(BlocksOf(pp.in)[i].text),
                                            pp.brand)))

\* C12: after post-processing the backend line of every variant block is
\* pure ASCII without comma, period, semicolon, colon, pipe or slash, its
\* tokens are separated by single spaces with none at either end, no token
\* is the brand name in any case, and it is the transliterated line it was
\* made from; the line "Lu fe, ge" with brand Lu becomes "fe ge".
C12_BackendLineNormalized ==
  pp.step >= 1 =>
    /\ \A i \in 1..Len(BlocksOf(pp.once)) :
          LET line == BackendLineOf(BlocksOf(pp.once)[i].text)
          IN  /\ ~THas(line, NonAscii \cup BackendPunct)
              /\ collapseSpaces(line) = line
              /\ pp.brand # << >> =>
                    \A k \in 1..Len(Tokens(line)) :
                      TLower(Tokens(line)[k]) # TLower(pp.brand)
              /\ line = SanitizedLine(BackendLineOf(BlocksOf(pp.in)[i].text), pp.brand)
    /\ (pp.in = Doc1(BlockLumina) /\ pp.brand = Brand) =>
          BackendLineOf(BlocksOf(pp.once)[1].text) = KwGood

\* the titles of a block, as the validator reads them
TitlesOf(block) ==
  parseTwoTitlesFromTitlesBlock(extractSection(block, "Titles", "BulletPoints"))

TitleInBounds(t, brand) ==
  /\ TLen(stripCounterSuffix(t)) >= TITLE_MIN
  /\ TLen(stripCounterSuffix(t)) <= TITLE_MAX
  /\ TLen(stripCounterSuffix(t)) <= TITLE_HARD_MAX
  /\ startsWithBrand(stripCounterSuffix(t), brand)

\* C13: every variant block of a document that validateOutput accepts has
\* exactly two titles, each of a length in [TITLE_MIN, TITLE_MAX] and at
\* most TITLE_HARD_MAX without its count annotation, each starting with the
\* brand in any case.
C13_AcceptedTitlesInBounds ==
  (val.step = 1 /\ val.v.ok) =>
    \A i \in 1..Len(BlocksOf(val.doc)) :
      /\ Len(TitlesOf(BlocksOf(val.doc)[i].text)) = 2
      /\ \A k \in 1..Len(TitlesOf(BlocksOf(val.doc)[i].text)) :
            TitleInBounds(TitlesOf(BlocksOf(val.doc)[i].text)[k], val.brand)

\* C14: the backend line of every variant block of a document that
\* validateOutput accepts, as it stands in the document, has no non-ASCII
\* byte, no comma, no semicolon and at most BACKEND_MAX_BYTES bytes.
C14_AcceptedBackendClean ==
  (val.step = 1 /\ val.v.ok) =>
    \A i \in 1..Len(BlocksOf(val.doc)) :
      /\ ~THas(BackendLineOf(BlocksOf(val.doc)[i].text), NonAscii \cup {",", ";"})
      /\ byteLen(BackendLineOf(BlocksOf(val.doc)[i].text)) <= BACKEND_MAX_BYTES

\* the lines of a document that carry a VARIANT label, in source order
LabelsOf(doc) == SelectLines(doc, {"variant"})

\* C15: with variants = 3 an accepted document has three VARIANT-labelled
\* blocks, found in the order of the source, each of which passes every
\* section check; and every violation reported under a label is a
\* violation of a block that carries the label.
C15_ThreeBlocksEachValid ==
  (val.step = 1 /\ val.variants = 3) =>
    /\ val.v.ok =>
          /\ Len(BlocksOf(val.doc)) = 3
          /\ \A i \in 1..Len(BlocksOf(val.doc)) :
                /\ BlocksOf(val.doc)[i].label = <<LabelsOf(val.doc)[i]>>
                /\ blockErrors(BlocksOf(val.doc)[i], val.brand) = << >>
    /\ \A k \in 1..Len(val.v.errors) :
          val.v.errors[k].label # NoLabel =>
            \E i \in 1..Len(BlocksOf(val.doc)) :
              /\ BlocksOf(val.doc)[i].label = val.v.errors[k].label
              /\ \E j \in 1..Len(blockErrors(BlocksOf(val.doc)[i], val.brand)) :
                    blockErrors(BlocksOf(val.doc)[i], val.brand)[j] = val.v.errors[k]

BulletCodes ==
  {"Missing Bullet Points section", "bullets count", "bullet length", "bullet format",
   "bullet ALL CAPS", "bullet Cyrillic", "bullet emoji"}

\* validateOutput reports a violation of the bullets of the block
HasBulletViolation(vb, brand) ==
  \E j \in 1..Len(blockErrors(vb, brand)) : blockErrors(vb, brand)[j].code \in BulletCodes

BulletsOf(block) == extractSection(block, "BulletPoints5", "ProductDescription")

\* C16: when exactly one variant block has bullet violations as the
\* targeted bullets repair starts, the backend is called for the bullets of
\* that block only, and the bullets sections of the other blocks are passed
\* on as they were.
C16_BulletsRepairOnlyWhereBroken ==
  (/\ pc = "targeted" /\ Stages[stage] = "bullets"
   /\ Cardinality({i \in 1..Len(vBlocks) :
                     HasBulletViolation(vBlocks[i], body.brand_name)}) = 1) =>
    /\ HasBulletViolation(vBlocks[bi], body.brand_name)
    /\ \A i \in 1..Len(fixedBlocks) :
          ~HasBulletViolation(vBlocks[i], body.brand_name) =>
            BulletsOf(fixedBlocks[i].text) = BulletsOf(vBlocks[i].text)

\* validateOutput rejects the document for the length of descriptions alone
OnlyDescriptionLength(doc, brand, variants) ==
  /\ ~validateOutput(doc, brand, variants).ok
  /\ \A k \in 1..Len(validateOutput(doc, brand, variants).errors) :
        validateOutput(doc, brand, variants).errors[k].code = "description length"

\* every targeted call was answered with a description within the bounds
RepliesInBounds(rs) ==
  \A i \in 3..Len(rs) :
    /\ rs[i].kind = "ok"
    /\ StrLen(extractText(rs[i])) >= DESC_MIN
    /\ StrLen(extractText(rs[i])) <= DESC_MAX

\* the text before the listing
ResearchOf(doc) == Trim(SliceBefore(doc, findRegexIndex(doc, "Phase2Listing")))

DescriptionOf(block) ==
  stripDescriptionHeading(extractSection(block, "ProductDescription", "Backend"))

\* the blocks of after hold the titles, bullets and backend sections of
\* the blocks of before
SameButDescriptions(before, after) ==
  /\ Len(after) = Len(before)
  /\ \A i \in 1..Len(before) :
        /\ i <= Len(after)
        /\ \A kind \in {"titles", "bullets", "backend"} :
              stageSection(kind, after[i].text) = stageSection(kind, before[i].text)

\* C17: when the length of a description is the only violation left after
\* the full repair and the replacements are within the bounds, the handler
\* calls the backend for descriptions only and the document it returns
\* differs from the one before the repair in description bodies only: the
\* research part and the titles, bullets and backend sections of every
\* block are the same, and the repaired description is the replacement.
C17_DescriptionOnlyRepair ==
  [][(/\ pc = "targeted" /\ pc' = "done" /\ response'.status = 200
      /\ OnlyDescriptionLength(output, body.brand_name, variantsOf(body))
      /\ RepliesInBounds(replies')) =>
       /\ \A i \in 1..Len(calls') : calls'[i].stage \in {"first", "repair", "description"}
       /\ \E i \in 1..Len(calls') : calls'[i].stage = "description"
       /\ ResearchOf(output') = ResearchOf(output)
       /\ SameButDescriptions(BlocksOf(output), BlocksOf(output'))
       /\ DescriptionOf(BlocksOf(output')[1].text) = extractText(replies'[3])]_vars

SectionKinds == {"titles", "bullets", "description", "backend"}

\* the backend line fixBackendAllVariants makes of a reply
BackendOfReply(cleaned, brand) ==
  removeBrandFromBackend(collapseSpaces(asciiNormalizeBackend(OneLine(cleaned))), brand)

\* the reply breaks the constraints of the section it was asked for
ReplyViolates(kind, cleaned, brand) ==
  CASE kind = "titles" ->
         \/ Len(parseTwoTitlesFromTitlesBlock(cleaned)) # 2
         \/ \E k \in 1..Len(parseTwoTitlesFromTitlesBlock(cleaned)) :
               titleErrors(EmptyStr, parseTwoTitlesFromTitlesBlock(cleaned)[k], k, brand)
                 # << >>
    [] kind = "bullets" ->
         \/ Len(parseBulletsFromBulletsBlock(cleaned)) # BULLET_COUNT
         \/ \E k \in 1..Len(parseBulletsFromBulletsBlock(cleaned)) :
               bulletErrors(EmptyStr, parseBulletsFromBulletsBlock(cleaned)[k], k) # << >>
    [] kind = "description" -> StrLen(cleaned) < DESC_MIN \/ StrLen(cleaned) > DESC_MAX
    [] OTHER -> BackendOfReply(cleaned, brand) = << >>

\* the section of the kind in the block reads as the reply
ParsesTo(kind, block, cleaned, brand) ==
  CASE kind = "titles" -> TitlesOf(block) = parseTwoTitlesFromTitlesBlock(cleaned)
    [] kind = "bullets" ->
         parseBulletsFromBulletsBlock(BulletsOf(block)) = parseBulletsFromBulletsBlock(cleaned)
    [] kind = "description" -> DescriptionOf(block) = cleaned
    [] OTHER -> BackendLineOf(block) = BackendOfReply(cleaned, brand)

HasAllSections(block) == \A k \in SectionKinds : stageSection(k, block) # EmptyStr

\* C18: after a titles, bullets or backend reply that satisfies the
\* constraints is spliced into a block that has all four sections, the
\* repaired section reads as the reply and each of the other three
\* sections, heading line and count annotation included, reads as before.
C18_SpliceRoundTrip ==
  (/\ fx.step = 1 /\ fx.kind \in {"titles", "bullets", "backend"}
   /\ HasAllSections(fx.vb.text)
   /\ ~ReplyViolates(fx.kind, extractText(fx.data), fx.brand)) =>
    /\ ParsesTo(fx.kind, fx.out.text, extractText(fx.data), fx.brand)
    /\ \A k \in SectionKinds \ {fx.kind} :
          stageSection(k, fx.out.text) = stageSection(k, fx.vb.text)

\* C19: a reply that breaks the constraints of the section it was asked
\* for is not spliced in: the section of the block reads as before.
C19_BadReplacementDiscarded ==
  (fx.step = 1 /\ ReplyViolates(fx.kind, extractText(fx.data), fx.brand)) =>
    stageSection(fx.kind, fx.out.text) = stageSection(fx.kind, fx.vb.text)

\* the blocks validateOutput looks at
ValidatedBlocks(doc, variants) ==
  IF extractPhase2(doc) = EmptyStr THEN << >>
  ELSE splitVariantsPhase2(extractPhase2(doc), variants)

MissingCode(kind) ==
  CASE kind = "titles" -> "Missing Titles section"
    [] kind = "bullets" -> "Missing Bullet Points section"
    [] kind = "description" -> "Missing Product Description section"
    [] OTHER -> "Missing Backend section"

\* the messages about the count or the length of a section
MeasureCodes(kind) ==
  CASE kind = "titles" -> {"titles found", "title length"}
    [] kind = "bullets" -> {"bullets count", "bullet length"}
    [] kind = "description" -> {"description length"}
    [] OTHER -> {"backend bytes"}

\* C20: for a block in which a mandatory section parses as empty,
\* validateOutput reports the section as missing under the label of the
\* block and reports no count or length violation of that section.
C20_MissingSectionNoCascade ==
  val.step = 1 =>
    \A i \in 1..Len(ValidatedBlocks(val.doc, val.variants)) :
      \A kind \in SectionKinds :
        stageSection(kind, ValidatedBlocks(val.doc, val.variants)[i].text) = EmptyStr =>
          /\ \E k \in 1..Len(val.v.errors) :
                val.v.errors[k] = Err(ValidatedBlocks(val.doc, val.variants)[i].label,
                                      MissingCode(kind), 0, 0)
          /\ \A k \in 1..Len(val.v.errors) :
                val.v.errors[k].label = ValidatedBlocks(val.doc, val.variants)[i].label =>
                  val.v.errors[k].code \notin MeasureCodes(kind)

\* C21: validateOutput reports a URL violation exactly when a URL is
\* written on a line other than the sources line, also when the same URL
\* is written on the sources line as well.
C21_UrlOutsideSourcesReported ==
  (val.step >= 1 /\ val.doc # EmptyStr) =>
    ((\E k \in 1..Len(val.v.errors) : val.v.errors[k].code = "URLs found outside")
       <=> (\E i \in 1..Len(val.doc) : val.doc[i].k # "src" /\ val.doc[i].urls # << >>))

\* the lines of the bullets section of a block that start with the bullet
\* sign
BulletLinesOf(block) == SelectLines(BulletsOf(block), BulletSignKinds)

\* C22: validateOutput reports a bullet-count violation for every block
\* whose bullets section holds fewer or more than BULLET_COUNT bullet lines.
C22_BulletCountReported ==
  val.step >= 1 =>
    \A i \in 1..Len(ValidatedBlocks(val.doc, val.variants)) :
      Len(BulletLinesOf(ValidatedBlocks(val.doc, val.variants)[i].text)) # BULLET_COUNT =>
        \E k \in 1..Len(val.v.errors) :
          /\ val.v.errors[k].label = ValidatedBlocks(val.doc, val.variants)[i].label
          /\ val.v.errors[k].code = "bullets count"

\* the brand is one of the tokens of the line, in any case
BrandIsToken(line, brand) ==
  \E k \in 1..Len(Tokens(line)) : TLower(Tokens(line)[k]) = TLower(TTrim(brand))

\* C23: validateOutput reports the brand in a backend line exactly when
\* the brand is a whole token of the line, so that it reports none for a
\* line the post-processor has made.
C23_BrandRuleAgrees ==
  val.step >= 1 =>
    \A i \in 1..Len(ValidatedBlocks(val.doc, val.variants)) :
      (\E k \in 1..Len(val.v.errors) :
         /\ val.v.errors[k].label = ValidatedBlocks(val.doc, val.variants)[i].label
         /\ val.v.errors[k].code = "backend brand")
        <=> BrandIsToken(BackendLineOf(ValidatedBlocks(val.doc, val.variants)[i].text),
                         val.brand)

\* the word of classifyErrors for a section kind
KindWord(kind) ==
  CASE kind = "titles" -> "title"
    [] kind = "bullets" -> "bullet"
    [] kind = "description" -> "description"
    [] OTHER -> "backend"

\* one of the violations is about the section kind
HasViolationAbout(errors, kind) ==
  \E k \in 1..Len(errors) : KindWord(kind) \in CodeWords(errors[k].code)

\* C24: the first targeted repair the handler calls the backend for is of
\* a section kind that one of the violations left after the full repair is
\* about, whatever the messages of the other violations quote.
C24_RepairOnlyForViolatedKind ==
  (pc = "targeted" /\ Len(calls) = 3) =>
    HasViolationAbout(validateOutput(output, body.brand_name, variantsOf(body)).errors,
                      calls[3].stage)

\* C25: a step taken while the targeted repairs run leaves the VARIANT
\* labels of the document, their order and the research part as they were.
C25_RepairKeepsBlockStructure ==
  [][pc = "targeted" =>
       /\ LabelsOf(output') = LabelsOf(output)
       /\ ResearchOf(output') = ResearchOf(output)]_vars

\* validateOutput has measured the titles, the description and the backend
\* line of the block without their annotations
MeasuredBlock(vb, errors) ==
  /\ Len(TitlesOf(vb.text)) = 2 =>
        \A j \in 1..2 :
          (\/ TLen(TTrim(TitlesOf(vb.text)[j].txt)) < TITLE_MIN
           \/ TLen(TTrim(TitlesOf(vb.text)[j].txt)) > TITLE_MAX)
            <=> (\E k \in 1..Len(errors) :
                   /\ errors[k].code = "title length" /\ errors[k].i = j
                   /\ errors[k].n = TLen(TTrim(TitlesOf(vb.text)[j].txt)))
  /\ (\/ StrLen(DescriptionOf(vb.text)) < DESC_MIN
      \/ StrLen(DescriptionOf(vb.text)) > DESC_MAX)
       <=> (\E k \in 1..Len(errors) :
              /\ errors[k].code = "description length"
              /\ errors[k].n = StrLen(DescriptionOf(vb.text)))
  /\ byteLen(asciiNormalizeBackend(BackendLineOf(vb.text))) > BACKEND_MAX_BYTES
       <=> (\E k \in 1..Len(errors) : errors[k].code = "backend bytes")

\* C26: a document and the document that differs from it in the numbers of
\* the (Chars: n) and (Bytes: n) annotations only get the same verdict and
\* the same violations from validateOutput, and the titles, the description
\* and the backend line are measured without the annotations.
C26_AnnotationsNotMeasured ==
  val.step = 2 =>
    /\ val.w = val.v
    /\ \A i \in 1..Len(ValidatedBlocks(val.twin, val.variants)) :
          MeasuredBlock(ValidatedBlocks(val.twin, val.variants)[i],
                        SelectSeq(val.w.errors,
                                  LAMBDA e : e.label =
                                    ValidatedBlocks(val.twin, val.variants)[i].label))

\* a document whose annotations were rewritten and whose titles and
\* description are reported as too short all the same
C26_Witness ==
  /\ val.step = 2
  /\ val.twin # val.doc
  /\ \E k \in 1..Len(val.w.errors) : val.w.errors[k].code = "title length"
  /\ \E k \in 1..Len(val.w.errors) : val.w.errors[k].code = "description length"
====
